---- MODULE Spec2Model ----
(***************************************************************************)
(* Model of the document-analysis pipeline of hopkins-test (VDR Lite).     *)
(*                                                                         *)
(* Two specifications share the module:                                    *)
(*   SpecCall  one call of withRetry (utils/retry.ts), wrapping either an  *)
(*             arbitrary operation fn or analyzeDocumentWithJSONGuard      *)
(*             (services/llm.ts) as processSingleFile wraps it;            *)
(*   Spec      one run of analyseHandler -> processZipFile ->              *)
(*             processSingleFile, per-file sub-pipelines started in        *)
(*             batches and settling in any order.                          *)
(*                                                                         *)
(* Strings that the code only inspects with includes() are sequences of    *)
(* word tokens; strings whose length matters are modelled by their length. *)
(***************************************************************************)
EXTENDS Integers, Sequences, FiniteSets, TLC

\* ------------------------------------------------------------------ bounds
\* largest maxAttempts a caller of withRetry configures explicitly
MaxCfgAttempts == 3
\* largest number of admitted files of a run
MaxFiles == 11
\* largest number of injected per-file faults (extraction or model failures)
MaxFaults == 2
\* largest archive for which a skipped over-size entry is explored
SmallArchive == 3
\* granularity of the clock, in ms
TickMs == 30000
\* the clock readings saturate here: time since unpack start, age of a request
MaxElapsed == 210000
MaxWaited == 60000
\* largest number of admitted files of a run observed with the clock
MaxTimedFiles == 2
\* largest number of export calls, and of calendar days they spread over
MaxExports == 3
MaxDays == 2
\* longest list of findings handed to the aggregator, and number of its calls
MaxDocs == 2
MaxAggCalls == 2
\* files of a batch handed to validateExtractedFiles
MaxGateFiles == 2
\* entries of an archive read by extractZipFiles, and how many of them may be
\* other than a readable file within the size limit
MaxZipEntries == 52
MaxOdd == 1
\* runs of equal characters in a short input text and in a long one
MaxRuns == 3
MaxLongRuns == 3
\* calls of classifyDocument in one process
MaxClassifyCalls == 2
\* attempts whose backoff delay is computed, and the values of Math.random()
\* tried: k / JitterSteps for k in 0..JitterSteps
MaxBackoffAttempts == 4
JitterSteps == 4
\* admitted files of a run whose sub-pipelines are followed stage by stage
MaxPipeFiles == 2

\* ------------------------------------------------------- program constants
MAX_CONCURRENT_LLM_CALLS == 10
DEFAULT_MAX_ATTEMPTS == 5
PIPELINE_MAX_ATTEMPTS == 5
SCHEMA_MAX_ITEMS == 5
SCHEMA_MIN_FACTS == 1
\* utils/constants.ts: TIMEOUTS, in ms
TIMEOUTS_PER_DOCUMENT == 30000
TIMEOUTS_SUMMARY == 20000
TIMEOUTS_TOTAL == 180000
\* PROCESSING_LIMITS.MAX_FILES
MAX_FILES == 50
\* PROCESSING_LIMITS.MAX_TEXT_LENGTH
MAX_TEXT_LENGTH == 15000
\* maxRows of truncateXLSX
XLSX_MAX_ROWS == 200

VARIABLES
  \* ---- withRetry (SpecCall)
  opKind,        \* "fn": arbitrary operation; "guard": analyzeDocumentWithJSONGuard
  config,        \* the Partial<RetryConfig> handed to withRetry
  attempt,       \* loop variable of withRetry
  calls,         \* number of times fn() has been called
  sleeps,        \* number of times sleep() has been called
  sleepArgs,     \* the attempt handed to calculateBackoffDelay before each sleep
  rpc,           \* position of withRetry
  lastError,     \* withRetry's lastError
  rresult,       \* value withRetry returned
  opOut,         \* settlement of the fn() call in flight
  opLog,         \* settlements of the arbitrary operation's calls, in order
  \* ---- analyzeDocumentWithJSONGuard (SpecCall)
  apiKey,        \* process.env.OPENAI_API_KEY is set
  gpc,           \* position of the guard
  requests,      \* client.chat.completions.create calls, all invocations
  greq,          \* create calls of the current invocation
  greplies,      \* contents received by the current invocation, in order
  content,       \* content of the first reply (kept for the follow-up)
  \* ---- analyseHandler / processZipFile (Spec)
  archive,       \* the uploaded archive: [corrupt, entries, oversize, unsupported]
  hpc,           \* position of the run
  files,         \* extractionResult.files.length (files are 1..files)
  batchStart,    \* loop variable i of processZipFile
  fstate,        \* per file: "none" | "queued" | "inflight" | "settled"
  fresult,       \* per file: settlement of its processSingleFile promise
  faults,        \* injected extraction / model faults so far
  processedFiles,\* processZipFile's processedFiles
  processingResult, \* what processZipFile returned
  docs,          \* handler: docs
  docSrc,        \* for each entry of docs, the file it was produced from
  aggregate,     \* handler: aggregate
  summaryText,   \* handler: summaryText
  narrativeRequests, \* model requests issued by getSummaryText
  nreplies,      \* answers invokeLLM returned to getSummaryText, in order
  persisted,     \* payloads handed to saveAnalysis that were written
  reply,         \* what the handler sent to the caller
  \* ---- the clock (SpecTime)
  elapsed,       \* Date.now() - startTime of processZipFile, in ms
  waited,        \* ms the model request in flight has been pending; 0 when none
  \* ---- exportHandler (SpecExport)
  today,         \* the date new Date() gives
  analysisFiles, \* output/<id>.json: per identifier, <<>> or <<the stored result>>
  markdownFiles, \* output/<id>.md: per identifier, <<>> or <<the bytes stored>>
  renderCalls,   \* calls of MarkdownGenerator.generateVDRSummary
  xreq,          \* per export call: its position and locals
  xlog,          \* the replies of the export calls, in completion order
  \* ---- aggregate.ts and the handler's fold (SpecAggregate)
  aggOp,         \* the aggregate computation performed last
  aggArg,        \* the list of findings it was given
  aggDocs,       \* that list as it is after the computation
  aggOut,        \* the Aggregate it produced
  aggCalls,      \* computations so far
  aggDirty,      \* an earlier computation returned a count above zero
  \* ---- validateExtractedFiles and the dispatch of truncateFile (SpecGate)
  gateFiles,     \* the extracted files: [filename, sniff, textual]
  gpos,          \* "validate" | "passed" | "rejected"
  unsupportedFiles, \* validateExtractedFiles: unsupportedFiles
  detectionErrors,  \* validateExtractedFiles: detectionErrors
  gateError,     \* what validateExtractedFiles threw
  reached,       \* per file of the batch: the extractor truncateFile selected
  \* ---- extractZipFiles (SpecZip)
  zipEntries,    \* the entries the 'entry' events delivered so far, in order
  zipFiles,      \* extractZipFiles: files (each the number of its entry)
  zipErrors,     \* extractZipFiles: errors
  zipProcessed,  \* extractZipFiles: processedFiles
  zipRead,       \* entries openReadStream was called for
  zpos,          \* "reading" | "resolved" | "rejected"
  \* ---- file-truncation.ts (SpecText)
  rawText,       \* the text the extractor got out of the buffer, as runs
  fileType,      \* the extension truncateFile dispatches on
  totalRows,     \* truncateXLSX: totalRows after the sheets were read
  truncation,    \* the TruncationResult returned
  tpos,          \* "extracted" | "done"
  \* ---- classifyDocument (SpecClassify)
  scores,        \* the scores object of the last call, as the call left it
  clsLog,        \* the calls so far: [filename, content, category]
  \* ---- calculateBackoffDelay (SpecBackoff)
  baseDelay,     \* finalConfig.baseDelay, in ms
  maxDelay,      \* finalConfig.maxDelay, in ms
  delays,        \* per attempt 0, 1, ..: [rnd, delay], the delay in 1/(4*JitterSteps) ms
  \* ---- processSingleFile stage by stage (SpecFile)
  pipeFiles,     \* per admitted file: [filename, raw], raw the text in its buffer
  pstage,        \* per file: position of processSingleFile
  stageLog,      \* per file: the stages started so far, in order
  truncatedContent, \* per file: the result of truncateFile, or NoValue
  classifierInput,  \* per file: what classifyDocument was called with, or NoValue
  pfAttempt,     \* per file: loop variable of its withRetry
  pfRequests     \* per file: model requests issued so far

callVars == <<opKind, config, attempt, calls, sleeps, sleepArgs,
              rpc, lastError, rresult, opOut, opLog, apiKey, gpc, requests,
              greq, greplies, content>>

runVars == <<archive, hpc, files, batchStart, fstate, fresult, faults,
             processedFiles, processingResult, docs, docSrc, aggregate,
             summaryText, narrativeRequests, nreplies, persisted, reply>>

timeVars == <<elapsed, waited>>

exportVars == <<today, analysisFiles, markdownFiles, renderCalls, xreq, xlog>>

aggVars == <<aggOp, aggArg, aggDocs, aggOut, aggCalls, aggDirty>>

gateVars == <<gateFiles, gpos, unsupportedFiles, detectionErrors, gateError, reached>>

\* the variables of the specifications that follow SpecAggregate
zipVars == <<zipEntries, zipFiles, zipErrors, zipProcessed, zipRead, zpos>>

textVars == <<rawText, fileType, totalRows, truncation, tpos>>

classifyVars == <<scores, clsLog>>

backoffVars == <<baseDelay, maxDelay, delays>>

fileVars == <<pipeFiles, pstage, stageLog, truncatedContent, classifierInput,
              pfAttempt, pfRequests>>

laterVars == <<gateVars, zipVars, textVars, classifyVars, backoffVars, fileVars>>

\* what the actions of SpecGate leave alone
besideGate == <<callVars, runVars, timeVars, exportVars, aggVars, zipVars, textVars, classifyVars, backoffVars,
  fileVars>>

\* what the actions of SpecZip leave alone
besideZip == <<callVars, runVars, timeVars, exportVars, aggVars, gateVars, textVars, classifyVars, backoffVars,
  fileVars>>

\* what the actions of SpecText leave alone
besideText ==
  <<callVars, runVars, timeVars, exportVars, aggVars, gateVars, zipVars, classifyVars,
    backoffVars, fileVars>>

\* what the actions of SpecClassify leave alone
besideClassify ==
  <<callVars, runVars, timeVars, exportVars, aggVars, gateVars, zipVars, textVars,
    backoffVars, fileVars>>

\* what the actions of SpecBackoff leave alone
besideBackoff ==
  <<callVars, runVars, timeVars, exportVars, aggVars, gateVars, zipVars, textVars,
    classifyVars, fileVars>>

\* what the per-file actions of SpecFile leave alone
besideFile ==
  <<callVars, timeVars, exportVars, aggVars, gateVars, zipVars, textVars, classifyVars,
    backoffVars>>

auxVars == <<exportVars, aggVars, laterVars>>

vars == <<callVars, runVars, timeVars, auxVars>>

\* ---------------------------------------------------------------- errors
\* An Error object: its class name and its message as word tokens.
MkError(name, message) == [name |-> name, message |-> message]

NoError == MkError("none", <<>>)

\* String.prototype.includes at word granularity: pat occurs contiguously.
includes(message, pat) ==
  \E i \in 0..(Len(message) - Len(pat)) :
     SubSeq(message, i + 1, i + Len(pat)) = pat

\* lower-case form of one word of the vocabulary
LowerWord(w) ==
  CASE w = "OPENAI_API_KEY" -> "openai_api_key"
    [] w = "OpenAI" -> "openai"
    [] w = "API" -> "api"
    [] w = "LLM" -> "llm"
    [] w = "JSON" -> "json"
    [] w = "Document" -> "document"
    [] w = "Unknown" -> "unknown"
    [] w = "Unauthorized" -> "unauthorized"
    [] w = "Incorrect" -> "incorrect"
    [] w = "Please" -> "please"
    [] w = "Rate" -> "rate"
    [] OTHER -> w

toLowerCase(message) == [i \in 1..Len(message) |-> LowerWord(message[i])]

\* ------------------------------------------------- retry.ts: shouldRetry
shouldRetry(error) ==
  LET errorMessage == toLowerCase(error.message) IN
  IF \/ includes(errorMessage, <<"rate", "limit">>)
     \/ includes(errorMessage, <<"quota">>)
     \/ includes(errorMessage, <<"timeout">>)
     \/ includes(errorMessage, <<"network">>)
     \/ includes(errorMessage, <<"temporary">>)
     \/ includes(errorMessage, <<"service", "unavailable">>)
  THEN TRUE
  ELSE IF \/ includes(errorMessage, <<"invalid", "api", "key">>)
          \/ includes(errorMessage, <<"authentication">>)
          \/ includes(errorMessage, <<"unauthorized">>)
          \/ includes(errorMessage, <<"forbidden">>)
          \/ includes(errorMessage, <<"not", "found">>)
          \/ includes(errorMessage, <<"bad", "request">>)
  THEN FALSE
  ELSE TRUE

\* ------------------------------------------------- values and settlements
NoValue == [kind |-> "none"]

\* settlement of a promise: fulfilled with value, or rejected with error
Fulfilled(v) == [ok |-> TRUE, value |-> v, error |-> NoError]
Rejected(e) == [ok |-> FALSE, value |-> NoValue, error |-> e]
Pending == [ok |-> FALSE, value |-> NoValue, error |-> NoError]

\* what an arbitrary operation fn may resolve to or throw
FnValues == {[kind |-> "value", id |-> 1], [kind |-> "value", id |-> 2]}
FnThrown == {MkError("Error", <<"rate", "limit", "exceeded">>),
             MkError("Error", <<"invalid", "api", "key">>),
             MkError("NonError", <<"boom">>)}
FnSettlements == {Fulfilled(v) : v \in FnValues} \cup {Rejected(e) : e \in FnThrown}

\* ---------------------------------------------------- model replies
\* content of response.choices[0]?.message?.content
EmptyContent ==
  [kind |-> "empty", doc |-> "", category |-> "", facts |-> <<>>, red_flags |-> <<>>]
TextContent ==
  [kind |-> "text", doc |-> "", category |-> "", facts |-> <<>>, red_flags |-> <<>>]
\* a JSON object; facts and red_flags are the lengths of their strings
MkJson(doc, category, facts, red_flags) ==
  [kind |-> "json", doc |-> doc, category |-> category, facts |-> facts,
   red_flags |-> red_flags]

Replies ==
  { EmptyContent, TextContent,
    MkJson("a.txt", "financial", <<12>>, <<>>),
    MkJson("a.txt", "legal", <<300, 5>>, <<7>>),
    MkJson("a.txt", "legal", <<301>>, <<>>),
    MkJson("a.txt", "other", <<5>>, <<301>>),
    MkJson("a.txt", "legal", <<>>, <<>>),
    MkJson("a.txt", "legal", <<1, 1, 1, 1, 1, 1>>, <<>>),
    MkJson("a.txt", "legal", <<0>>, <<>>),
    MkJson("", "legal", <<3>>, <<>>),
    MkJson("a.txt", "misc", <<3>>, <<>>),
    MkJson("a.txt", "legal", <<3>>, <<0>>),
    MkJson("a.txt", "legal", <<3>>, <<2, 2, 2, 2, 2, 2>>) }

\* errors client.chat.completions.create may throw
ApiErrors == {MkError("Error", <<"rate", "limit", "exceeded">>),
              MkError("Error", <<"401", "Unauthorized">>),
              MkError("Error", <<"Incorrect", "API", "key", "provided">>)}

\* ------------------------------------------- schemas/document-analysis.ts
Categories == {"financial", "legal", "commercial", "operations", "other"}

DocResultSchema(parsed) ==
  /\ parsed.doc # ""
  /\ parsed.category \in Categories
  /\ \A i \in 1..Len(parsed.facts) : parsed.facts[i] >= 1
  /\ Len(parsed.facts) >= SCHEMA_MIN_FACTS
  /\ Len(parsed.facts) <= SCHEMA_MAX_ITEMS
  /\ \A i \in 1..Len(parsed.red_flags) : parsed.red_flags[i] >= 1
  /\ Len(parsed.red_flags) >= 0
  /\ Len(parsed.red_flags) <= SCHEMA_MAX_ITEMS

\* JSON.parse: only a JSON text parses
JSONparse(jsonString) ==
  IF jsonString.kind = "json" THEN Fulfilled(jsonString) ELSE
  Rejected(MkError("SyntaxError", <<"Unexpected", "token">>))

\* utils/json-guard.ts: validateJSONWithZod(jsonString, DocResultSchema).success
validateJSONWithZod(jsonString) ==
  LET parsed == JSONparse(jsonString) IN
  IF parsed.ok THEN DocResultSchema(parsed.value) ELSE FALSE

\* ------------------------------------------------ services/llm.ts: errors
MsgKeyNotSet == <<"OPENAI_API_KEY", "environment", "variable", "is", "not", "set">>
MsgEmptyResponse == <<"LLM", "returned", "empty", "response">>
MsgEmptyOnRetry == <<"LLM", "returned", "empty", "response", "on", "retry">>
InvalidJSONError ==
  MkError("InvalidJSONError", <<"LLM", "returned", "invalid", "JSON", "after", "retry.">>)

\* the catch block of analyzeDocumentWithJSONGuard: what it re-throws
GuardCatch(error) ==
  IF error.name = "InvalidJSONError" THEN error
  ELSE IF includes(error.message, <<"API", "key">>)
    THEN MkError("Error", <<"OpenAI", "API", "key", "is", "invalid", "or", "missing">>)
  ELSE IF includes(error.message, <<"rate", "limit">>)
    THEN MkError("Error", <<"OpenAI", "API", "rate", "limit", "exceeded.",
                           "Please", "try", "again", "later.">>)
  ELSE IF includes(error.message, <<"quota">>)
    THEN MkError("Error", <<"OpenAI", "API", "quota", "exceeded.",
                           "Please", "check", "your", "billing.">>)
  ELSE IF includes(error.message, <<"model">>)
    THEN MkError("Error", <<"OpenAI", "model", "is", "not", "available", "or", "invalid">>)
  ELSE MkError("Error", <<"Document", "analysis", "failed:">> \o error.message)

\* ------------------------------------------------- retry.ts: withRetry
\* finalConfig = { ...DEFAULT_RETRY_CONFIG, ...config }
finalConfig(cfg) ==
  [maxAttempts |-> IF cfg.maxAttempts = <<>> THEN DEFAULT_MAX_ATTEMPTS
                   ELSE cfg.maxAttempts[1],
   shouldRetryFn |-> cfg.shouldRetryFn]

\* lastError = error instanceof Error ? error : new Error('Unknown error')
AsError(error) ==
  IF error.name = "NonError" THEN MkError("Error", <<"Unknown", "error">>)
  ELSE error

\* finalConfig.shouldRetryFn ? finalConfig.shouldRetryFn(e) : shouldRetry(e)
shouldRetryError(fc, error) ==
  CASE fc.shouldRetryFn = "yes" -> TRUE
    [] fc.shouldRetryFn = "no" -> FALSE
    [] OTHER -> shouldRetry(error)

\* the for-loop condition of withRetry
withRetryLoop(att, fc) == att < fc.maxAttempts

\* withRetryStep giving up one attempt early (maxAttempts - 2)
withRetryStep_EarlyExhaust(att, fc, settled) ==
  IF settled.ok THEN "return"
  ELSE IF ~shouldRetryError(fc, AsError(settled.error)) \/ att = fc.maxAttempts - 2
       THEN "throw"
       ELSE "sleep"

\* withRetryStep without the return in front of await fn(): a success is dropped
withRetryStep_DropsReturn(att, fc, settled) ==
  IF settled.ok
  THEN (IF att = fc.maxAttempts - 1 THEN "throw" ELSE "sleep")
  ELSE IF ~shouldRetryError(fc, AsError(settled.error)) \/ att = fc.maxAttempts - 1
       THEN "throw"
       ELSE "sleep"

\* withRetryStep that never consults the predicate
withRetryStep_IgnoresPredicate(att, fc, settled) ==
  IF settled.ok THEN "return"
  ELSE IF att = fc.maxAttempts - 1 THEN "throw" ELSE "sleep"

\* withRetryStep that sleeps after the last allowed attempt too
withRetryStep_SleepsAfterLast(att, fc, settled) ==
  IF settled.ok THEN "return"
  ELSE IF ~shouldRetryError(fc, AsError(settled.error)) THEN "throw" ELSE "sleep"

\* what withRetry does with the settlement of fn(): "return", "throw" or "sleep"
withRetryStep(att, fc, settled) ==
  IF settled.ok THEN "return"
  ELSE IF ~shouldRetryError(fc, AsError(settled.error)) \/ att = fc.maxAttempts - 1
       THEN "throw"
       ELSE "sleep"

\* the call of fn() at the top of the loop body, or the throw after the loop
RetryInvoke ==
  /\ rpc = "loop"
  /\ IF withRetryLoop(attempt, finalConfig(config))
     THEN /\ calls' = calls + 1
          /\ rpc' = "awaitFn"
          /\ opOut' = Pending
          /\ gpc' = IF opKind = "guard" THEN "start" ELSE gpc
          /\ greq' = 0
          /\ greplies' = <<>>
          /\ content' = NoValue
     ELSE /\ rpc' = "threw"
          /\ UNCHANGED <<calls, opOut, gpc, greq, greplies, content>>
  /\ UNCHANGED <<opKind, config, attempt, sleeps, sleepArgs, lastError, rresult, opLog,
                 apiKey, requests>>
  /\ UNCHANGED runVars
  /\ UNCHANGED timeVars
  /\ UNCHANGED auxVars

\* an arbitrary operation settles
FnSettle ==
  /\ opKind = "fn" /\ rpc = "awaitFn" /\ opOut = Pending
  /\ \E s \in FnSettlements :
       /\ opOut' = s
       /\ opLog' = Append(opLog, s)
  /\ UNCHANGED <<opKind, config, attempt, calls, sleeps, sleepArgs, rpc, lastError, rresult,
                 apiKey, gpc, requests, greq, greplies, content>>
  /\ UNCHANGED runVars
  /\ UNCHANGED timeVars
  /\ UNCHANGED auxVars

\* the resumption of withRetry after await fn(): return, throw, or sleep
RetryHandle ==
  /\ rpc = "awaitFn" /\ opOut # Pending
  /\ LET step == withRetryStep(attempt, finalConfig(config), opOut) IN
     /\ rpc' = CASE step = "return" -> "returned"
                  [] step = "throw" -> "threw"
                  [] OTHER -> "sleeping"
     /\ rresult' = IF step = "return" THEN opOut.value ELSE rresult
     /\ lastError' = IF opOut.ok THEN lastError ELSE AsError(opOut.error)
     /\ sleeps' = IF step = "sleep" THEN sleeps + 1 ELSE sleeps
     /\ sleepArgs' = IF step = "sleep" THEN Append(sleepArgs, attempt) ELSE sleepArgs
  /\ opOut' = Pending
  /\ UNCHANGED <<opKind, config, attempt, calls, opLog, apiKey, gpc, requests,
                 greq, greplies, content>>
  /\ UNCHANGED runVars
  /\ UNCHANGED timeVars
  /\ UNCHANGED auxVars

\* a backoff sleep that never ends
RetrySleepDone_NeverWakes ==
  /\ rpc = "sleeping"
  /\ UNCHANGED vars

\* the backoff sleep ends: attempt++ and back to the loop condition
RetrySleepDone ==
  /\ rpc = "sleeping"
  /\ attempt' = attempt + 1
  /\ rpc' = "loop"
  /\ UNCHANGED <<opKind, config, calls, sleeps, sleepArgs, lastError, rresult, opOut, opLog,
                 apiKey, gpc, requests, greq, greplies, content>>
  /\ UNCHANGED runVars
  /\ UNCHANGED timeVars
  /\ UNCHANGED auxVars

\* ------------------------- services/llm.ts: analyzeDocumentWithJSONGuard
\* responses of client.chat.completions.create
ApiResponses == {Fulfilled(r) : r \in Replies} \cup {Rejected(e) : e \in ApiErrors}

\* GuardAfterFirst without the corrective follow-up: an invalid reply fails at once
GuardAfterFirst_NoFollowUp(resp) ==
  IF ~resp.ok THEN [pc |-> "done", out |-> Rejected(GuardCatch(resp.error))]
  ELSE IF resp.value.kind = "empty"
    THEN [pc |-> "done", out |-> Rejected(GuardCatch(MkError("Error", MsgEmptyResponse)))]
  ELSE IF validateJSONWithZod(resp.value)
    THEN [pc |-> "done", out |-> Fulfilled(resp.value)]
  ELSE [pc |-> "done", out |-> Rejected(GuardCatch(InvalidJSONError))]

\* after the first response: settle, or go on to the corrective follow-up
GuardAfterFirst(resp) ==
  IF ~resp.ok THEN [pc |-> "done", out |-> Rejected(GuardCatch(resp.error))]
  ELSE IF resp.value.kind = "empty"
    THEN [pc |-> "done", out |-> Rejected(GuardCatch(MkError("Error", MsgEmptyResponse)))]
  ELSE IF validateJSONWithZod(resp.value)
    THEN [pc |-> "done", out |-> Fulfilled(resp.value)]
  ELSE [pc |-> "req2", out |-> Pending]

\* after the response to the follow-up: settle
GuardAfterSecond(resp) ==
  IF ~resp.ok THEN Rejected(GuardCatch(resp.error))
  ELSE IF resp.value.kind = "empty"
    THEN Rejected(GuardCatch(MkError("Error", MsgEmptyOnRetry)))
  ELSE IF validateJSONWithZod(resp.value)
    THEN Fulfilled(resp.value)
  ELSE Rejected(GuardCatch(InvalidJSONError))

\* the credential check, then the first request
GuardStart ==
  /\ opKind = "guard" /\ rpc = "awaitFn" /\ gpc = "start"
  /\ IF ~apiKey
     THEN LET s == Rejected(GuardCatch(MkError("Error", MsgKeyNotSet))) IN
          /\ gpc' = "done"
          /\ opOut' = s
          /\ UNCHANGED <<requests, greq>>
     ELSE /\ gpc' = "req1"
          /\ requests' = requests + 1
          /\ greq' = greq + 1
          /\ UNCHANGED opOut
  /\ UNCHANGED <<opKind, config, attempt, calls, sleeps, sleepArgs, rpc, lastError, rresult,
                 opLog, apiKey, greplies, content>>
  /\ UNCHANGED runVars
  /\ UNCHANGED timeVars
  /\ UNCHANGED auxVars

\* the first response arrives
GuardFirstReply ==
  /\ opKind = "guard" /\ rpc = "awaitFn" /\ gpc = "req1"
  /\ \E resp \in ApiResponses :
       LET d == GuardAfterFirst(resp) IN
       /\ greplies' = IF resp.ok THEN Append(greplies, resp.value) ELSE greplies
       /\ gpc' = d.pc
       /\ IF d.pc = "done"
          THEN /\ opOut' = d.out
               /\ UNCHANGED <<requests, greq, content>>
          ELSE /\ content' = resp.value
               /\ requests' = requests + 1
               /\ greq' = greq + 1
               /\ UNCHANGED opOut
  /\ UNCHANGED <<opKind, config, attempt, calls, sleeps, sleepArgs, rpc, lastError, rresult,
                 opLog, apiKey>>
  /\ UNCHANGED runVars
  /\ waited' = 0
  /\ UNCHANGED elapsed
  /\ UNCHANGED auxVars

\* the response to the corrective follow-up arrives
GuardSecondReply ==
  /\ opKind = "guard" /\ rpc = "awaitFn" /\ gpc = "req2"
  /\ \E resp \in ApiResponses :
       LET s == GuardAfterSecond(resp) IN
       /\ greplies' = IF resp.ok THEN Append(greplies, resp.value) ELSE greplies
       /\ gpc' = "done"
       /\ opOut' = s
  /\ UNCHANGED <<opKind, config, attempt, calls, sleeps, sleepArgs, rpc, lastError, rresult,
                 opLog, apiKey, requests, greq, content>>
  /\ UNCHANGED runVars
  /\ waited' = 0
  /\ UNCHANGED elapsed
  /\ UNCHANGED auxVars

\* ------------------------------------------------------ run state, idle
NoArchive ==
  [corrupt |-> FALSE, entries |-> 0, oversize |-> FALSE, unsupported |-> FALSE]

NoProcessingResult ==
  [processedFiles |-> <<>>, totalFiles |-> 0, successfulFiles |-> 0,
   failedFiles |-> 0, processingErrors |-> <<>>]

\* the aggregate literal of analyseHandler: five categories, all counts zero
ZeroAggregate == [c \in Categories |-> [facts |-> 0, red_flags |-> 0]]

NoSummary == [kind |-> "none", words |-> 0]

NoReply == [kind |-> "none", status |-> 0, body |-> NoValue]

\* no run in progress (SpecCall)
RunIdle ==
  /\ archive = NoArchive
  /\ hpc = "idle"
  /\ files = 0 /\ batchStart = 0 /\ faults = 0
  /\ fstate = [f \in 1..MaxFiles |-> "none"]
  /\ fresult = [f \in 1..MaxFiles |-> Pending]
  /\ processedFiles = <<>>
  /\ processingResult = NoProcessingResult
  /\ docs = <<>> /\ docSrc = <<>>
  /\ aggregate = ZeroAggregate
  /\ summaryText = NoSummary
  /\ narrativeRequests = 0
  /\ nreplies = <<>>
  /\ persisted = <<>>
  /\ reply = NoReply

\* the clock at the start
ClockZero == elapsed = 0 /\ waited = 0

\* the analysis identifiers of the export requests
Identifiers == {"a1", "a2"}

\* an export call that has not started
NoExportCall ==
  [pc |-> "idle", id |-> "", markdown |-> <<>>, rendered |-> FALSE, seen |-> 0]

\* no export call and no aggregate computation (SpecCall, Spec, SpecTime)
ExportIdle ==
  /\ today = 1
  /\ analysisFiles = [id \in Identifiers |-> <<>>]
  /\ markdownFiles = [id \in Identifiers |-> <<>>]
  /\ renderCalls = 0
  /\ xreq = [r \in 1..MaxExports |-> NoExportCall]
  /\ xlog = <<>>

AggIdle ==
  /\ aggOp = "none"
  /\ aggArg = <<>> /\ aggDocs = <<>>
  /\ aggOut = NoValue
  /\ aggCalls = 0
  /\ aggDirty = FALSE

\* no batch at the type gate
GateIdle ==
  /\ gateFiles = <<>>
  /\ gpos = "idle"
  /\ unsupportedFiles = <<>> /\ detectionErrors = <<>>
  /\ gateError = NoError
  /\ reached = [f \in 1..MaxGateFiles |-> "none"]

\* no archive being read
ZipIdle ==
  /\ zipEntries = <<>> /\ zipFiles = <<>> /\ zipErrors = <<>>
  /\ zipProcessed = 0
  /\ zipRead = {}
  /\ zpos = "idle"

\* no text being truncated
TextIdle ==
  /\ rawText = <<>>
  /\ fileType = ""
  /\ totalRows = 0
  /\ truncation = NoValue
  /\ tpos = "idle"

\* no call of the classifier yet
ClassifyIdle ==
  /\ scores = NoValue
  /\ clsLog = <<>>

\* no backoff delay computed
BackoffIdle ==
  /\ baseDelay = 1000 /\ maxDelay = 30000
  /\ delays = <<>>

\* no sub-pipeline followed
FileIdle ==
  /\ pipeFiles = [f \in 1..MaxPipeFiles |-> [filename |-> <<"data", "txt">>,
                                              raw |-> <<[ch |-> "a", n |-> 3]>>]]
  /\ pstage = [f \in 1..MaxPipeFiles |-> "none"]
  /\ stageLog = [f \in 1..MaxPipeFiles |-> <<>>]
  /\ truncatedContent = [f \in 1..MaxPipeFiles |-> NoValue]
  /\ classifierInput = [f \in 1..MaxPipeFiles |-> NoValue]
  /\ pfAttempt = [f \in 1..MaxPipeFiles |-> 0]
  /\ pfRequests = [f \in 1..MaxPipeFiles |-> 0]

LaterIdle == GateIdle /\ ZipIdle /\ TextIdle /\ ClassifyIdle /\ BackoffIdle /\ FileIdle

AuxIdle == ExportIdle /\ AggIdle /\ LaterIdle

\* ------------------------------------------------------------ SpecCall
RetryConfigs ==
  [maxAttempts : {<<>>} \cup {<<k>> : k \in 0..MaxCfgAttempts},
   shouldRetryFn : {"unset", "yes", "no"}]

\* a pipeline that allows a sixth attempt
PipelineRetryConfig_SixAttempts ==
  [maxAttempts |-> <<PIPELINE_MAX_ATTEMPTS + 1>>, shouldRetryFn |-> "unset"]

\* processSingleFile: withRetry(() => analyzeDocumentWithJSONGuard(..), { maxAttempts: 5 })
PipelineRetryConfig ==
  [maxAttempts |-> <<PIPELINE_MAX_ATTEMPTS>>, shouldRetryFn |-> "unset"]

InitCall ==
  /\ opKind \in {"fn", "guard"}
  /\ IF opKind = "fn"
     THEN config \in RetryConfigs /\ apiKey = TRUE
     ELSE config = PipelineRetryConfig /\ apiKey \in BOOLEAN
  /\ attempt = 0 /\ calls = 0 /\ sleeps = 0 /\ sleepArgs = <<>>
  /\ rpc = "loop"
  /\ lastError = NoError
  /\ rresult = NoValue
  /\ opOut = Pending
  /\ opLog = <<>>
  /\ gpc = "idle" /\ requests = 0 /\ greq = 0 /\ greplies = <<>>
  /\ content = NoValue
  /\ RunIdle
  /\ ClockZero
  /\ AuxIdle

NextCall ==
  \/ RetryInvoke
  \/ FnSettle
  \/ RetryHandle
  \/ RetrySleepDone
  \/ GuardStart
  \/ GuardFirstReply
  \/ GuardSecondReply

SpecCall == InitCall /\ [][NextCall]_vars

\* ==================================================================== Spec
\* a human-readable error string: its fixed text, and the admitted file whose
\* name it carries (0: it names no admitted file)
MkNote(text, file) == [text |-> text, file |-> file]

\* ------------------------------------------ zip-extraction.ts (outcome)
\* extractZipFiles: rejects on a corrupt archive and, through
\* validateExtractedFiles, on zero files and on an entry of an explicitly
\* unsupported type (such as invalid.exe, read beside the zip.entries supported
\* ones); otherwise resolves with the files and the skip reasons
extractZipFiles(zip) ==
  IF zip.corrupt THEN Rejected(MkError("Error", <<"ZIP", "extraction", "failed">>))
  ELSE IF zip.entries = 0 /\ ~zip.unsupported
    THEN Rejected(MkError("FileValidationError", <<"No", "files", "found", "in", "ZIP", "archive">>))
  ELSE IF zip.unsupported
    THEN Rejected(MkError("UnsupportedFileTypeError",
                          <<"Unsupported", "file", "type.", "Only", "pdf,", "docx,",
                            "xlsx,", "csv,", "txt", "files", "are", "supported">>))
  ELSE Fulfilled([kind |-> "extraction", files |-> zip.entries,
                  errors |-> IF zip.oversize
                             THEN <<MkNote("exceeds size limit", 0)>> ELSE <<>>])

\* ------------------------------------- processing-pipeline.ts: one file
\* the model's reply that passes the guard for file f
FileReply(f) ==
  IF f % 2 = 1 THEN MkJson("a.txt", "financial", <<12>>, <<>>)
  ELSE MkJson("a.txt", "legal", <<300, 5>>, <<7>>)

\* how withRetry(() => analyzeDocumentWithJSONGuard(..)) can end for file f
AnalysisSettlements(f, key) ==
  IF ~key
  THEN {Rejected(GuardCatch(MkError("Error", MsgKeyNotSet)))}
  ELSE {Fulfilled(FileReply(f)), Rejected(InvalidJSONError)}

MkProcessedFile(f, pErrors, analysis, lErrors) ==
  [kind |-> "processedFile", originalFile |-> f, processingErrors |-> pErrors,
   llmAnalysis |-> analysis, llmErrors |-> lErrors]

\* processSingleFile that lets an extraction failure escape
processSingleFile_Rethrows(f, extracted, analysis) ==
  IF ~extracted
  THEN Rejected(MkError("Error", <<"extraction", "failed">>))
  ELSE IF analysis.ok
    THEN Fulfilled(MkProcessedFile(f, <<>>, analysis.value, <<>>))
  ELSE Fulfilled(MkProcessedFile(f, <<>>, NoValue,
                                 <<MkNote("LLM analysis failed for", f)>>))

\* processSingleFile: the settlement of its promise, given whether truncateFile
\* succeeded and how the guarded analysis ended
processSingleFile(f, extracted, analysis) ==
  IF ~extracted
  THEN Fulfilled(MkProcessedFile(f, <<MkNote("Failed to process", f)>>, NoValue, <<>>))
  ELSE IF analysis.ok
    THEN Fulfilled(MkProcessedFile(f, <<>>, analysis.value, <<>>))
  ELSE Fulfilled(MkProcessedFile(f, <<>>, NoValue,
                                 <<MkNote("LLM analysis failed for", f)>>))

\* ------------------------------- processing-pipeline.ts: processZipFile
\* files.slice(i, i + concurrencyLimit) without the limit
Batch_NoLimit(i, n) == {f \in 1..n : f > i}

\* files.slice(i, i + concurrencyLimit + 1): a group that takes the first file
\* of the next group along
Batch_Overlapping(i, n) == {f \in 1..n : f > i /\ f <= i + MAX_CONCURRENT_LLM_CALLS + 1}

\* files.slice(i, i + concurrencyLimit), as the set of file numbers
Batch(i, n) == {f \in 1..n : f > i /\ f <= i + MAX_CONCURRENT_LLM_CALLS}

\* the result of the catch block of processZipFile
PipelineFailed ==
  [processedFiles |-> <<>>, totalFiles |-> 0, successfulFiles |-> 0,
   failedFiles |-> 0,
   processingErrors |-> <<MkNote("Processing pipeline failed", 0)>>]

\* the result of the files.length === 0 branch
NoValidFiles ==
  [processedFiles |-> <<>>, totalFiles |-> 0, successfulFiles |-> 0,
   failedFiles |-> 0,
   processingErrors |-> <<MkNote("No valid files found in ZIP archive", 0)>>]

RECURSIVE CollectErrors(_)
\* processedFiles.forEach(file => processingErrors.push(...file.processingErrors))
CollectErrors(pfs) ==
  IF pfs = <<>> THEN <<>>
  ELSE Head(pfs).processingErrors \o CollectErrors(Tail(pfs))

\* step 3 of processZipFile: the ProcessingResult of a completed loop
PipelineResult(pfs, n, extractionErrors) ==
  [processedFiles |-> pfs,
   totalFiles |-> n,
   successfulFiles |-> Cardinality({k \in DOMAIN pfs : pfs[k].processingErrors = <<>>}),
   failedFiles |-> Cardinality({k \in DOMAIN pfs : pfs[k].processingErrors # <<>>}),
   processingErrors |-> extractionErrors \o CollectErrors(pfs)]

\* await extractZipFiles(zipBuffer) settles
Unpack ==
  /\ hpc = "unpacking"
  /\ LET extractionResult == extractZipFiles(archive) IN
     IF ~extractionResult.ok
     THEN /\ processingResult' = PipelineFailed
          /\ hpc' = "returned"
          /\ UNCHANGED <<files, fstate>>
     ELSE IF extractionResult.value.files = 0
     THEN /\ processingResult' = NoValidFiles
          /\ hpc' = "returned"
          /\ UNCHANGED <<files, fstate>>
     ELSE /\ files' = extractionResult.value.files
          /\ fstate' = [f \in 1..MaxFiles |->
                          IF f <= extractionResult.value.files THEN "queued" ELSE "none"]
          /\ hpc' = "batch"
          /\ UNCHANGED processingResult
  /\ UNCHANGED <<nreplies, archive, batchStart, fresult, faults, processedFiles, docs, docSrc,
                 aggregate, summaryText, narrativeRequests, persisted, reply>>
  /\ UNCHANGED callVars
  /\ UNCHANGED timeVars
  /\ UNCHANGED auxVars

\* batch.map(file => processSingleFile(file)): the batch's files start together
StartBatch ==
  /\ hpc = "batch"
  /\ fstate' = [f \in 1..MaxFiles |->
                  IF f \in Batch(batchStart, files) THEN "inflight" ELSE fstate[f]]
  /\ hpc' = "awaitBatch"
  /\ UNCHANGED <<nreplies, archive, files, batchStart, fresult, faults, processedFiles,
                 processingResult, docs, docSrc, aggregate, summaryText,
                 narrativeRequests, persisted, reply>>
  /\ UNCHANGED callVars
  /\ UNCHANGED timeVars
  /\ UNCHANGED auxVars

\* the sub-pipeline of one file in flight settles
FinishFile(f) ==
  /\ fstate[f] = "inflight"
  /\ \E extracted \in BOOLEAN :
     \E analysis \in AnalysisSettlements(f, apiKey) :
       LET injected == ~extracted \/ (apiKey /\ ~analysis.ok) IN
       /\ injected => faults < MaxFaults
       /\ faults' = IF injected THEN faults + 1 ELSE faults
       /\ fresult' = [fresult EXCEPT ![f] = processSingleFile(f, extracted, analysis)]
  /\ fstate' = [fstate EXCEPT ![f] = "settled"]
  /\ UNCHANGED <<nreplies, archive, hpc, files, batchStart, processedFiles,
                 processingResult, docs, docSrc, aggregate, summaryText,
                 narrativeRequests, persisted, reply>>
  /\ UNCHANGED callVars
  /\ UNCHANGED timeVars
  /\ UNCHANGED auxVars

\* await Promise.all(batchPromises) settles: push the results in batch order and
\* go on with the next batch or with step 3; a rejection goes to the catch block
JoinBatch ==
  /\ hpc = "awaitBatch"
  /\ LET batch == Batch(batchStart, files)
         rejected == {f \in batch : fstate[f] = "settled" /\ ~fresult[f].ok}
         batchResults == [k \in 1..Cardinality(batch) |-> fresult[batchStart + k].value]
         pfs == processedFiles \o batchResults
         i == batchStart + MAX_CONCURRENT_LLM_CALLS
     IN
     /\ rejected # {} \/ \A f \in batch : fstate[f] = "settled"
     /\ IF rejected # {}
        THEN /\ processingResult' = PipelineFailed
             /\ hpc' = "returned"
             /\ UNCHANGED <<processedFiles, batchStart>>
        ELSE /\ processedFiles' = pfs
             /\ batchStart' = i
             /\ IF i < files
                THEN hpc' = "batch" /\ UNCHANGED processingResult
                ELSE /\ hpc' = "returned"
                     /\ processingResult' =
                          PipelineResult(pfs, files, extractZipFiles(archive).value.errors)
  /\ UNCHANGED <<nreplies, archive, files, fstate, fresult, faults, docs, docSrc, aggregate,
                 summaryText, narrativeRequests, persisted, reply>>
  /\ UNCHANGED callVars
  /\ UNCHANGED timeVars
  /\ UNCHANGED auxVars

\* ------------------------------------------ routes/analyse.ts: the handler
RECURSIVE FoldFiles_CopiedCount(_, _)
\* FoldFiles with the facts line copied for red_flags: both counts add facts.length
FoldFiles_CopiedCount(pfs, acc) ==
  IF pfs = <<>> THEN acc
  ELSE LET file == Head(pfs)
           docResult == JSONparse(file.llmAnalysis)
       IN FoldFiles_CopiedCount(Tail(pfs),
            IF file.llmAnalysis # NoValue /\ docResult.ok
            THEN [docs |-> Append(acc.docs, docResult.value),
                  src |-> Append(acc.src, file.originalFile),
                  aggregate |->
                    [acc.aggregate EXCEPT
                       ![docResult.value.category] =
                          [facts |-> @.facts + Len(docResult.value.facts),
                           red_flags |-> @.red_flags + Len(docResult.value.facts)]]]
            ELSE acc)

RECURSIVE FoldFiles_Unshift(_, _)
\* FoldFiles with docs.unshift in place of docs.push: the newest finding first
FoldFiles_Unshift(pfs, acc) ==
  IF pfs = <<>> THEN acc
  ELSE LET file == Head(pfs)
           docResult == JSONparse(file.llmAnalysis)
       IN FoldFiles_Unshift(Tail(pfs),
            IF file.llmAnalysis # NoValue /\ docResult.ok
            THEN [docs |-> <<docResult.value>> \o acc.docs,
                  src |-> <<file.originalFile>> \o acc.src,
                  aggregate |->
                    [acc.aggregate EXCEPT
                       ![docResult.value.category] =
                          [facts |-> @.facts + Len(docResult.value.facts),
                           red_flags |-> @.red_flags + Len(docResult.value.red_flags)]]]
            ELSE acc)

RECURSIVE FoldFiles(_, _)
\* the loop over processingResult.processedFiles: docs (with the file each
\* entry came from) and aggregate
FoldFiles(pfs, acc) ==
  IF pfs = <<>> THEN acc
  ELSE LET file == Head(pfs)
           docResult == JSONparse(file.llmAnalysis)
       IN FoldFiles(Tail(pfs),
            IF file.llmAnalysis # NoValue /\ docResult.ok
            THEN [docs |-> Append(acc.docs, docResult.value),
                  src |-> Append(acc.src, file.originalFile),
                  aggregate |->
                    [acc.aggregate EXCEPT
                       ![docResult.value.category] =
                          [facts |-> @.facts + Len(docResult.value.facts),
                           red_flags |-> @.red_flags + Len(docResult.value.red_flags)]]]
            ELSE acc)

\* services/summary.ts: answers of the model to a narrative request, by word count
Narrative(words) == [kind |-> "narrative", words |-> words]
NarrativeResponses ==
  {Fulfilled(Narrative(350)), Fulfilled(Narrative(200)), Fulfilled(Narrative(0)),
   Rejected(MkError("Error", <<"rate", "limit", "exceeded">>))}

\* the answers explored for a run: on archives of at most SmallArchive admitted
\* entries also the word counts at and next to the limits of the schema
NarrativeResponsesFor(zip) ==
  IF zip.entries <= SmallArchive
  THEN NarrativeResponses \cup
       {Fulfilled(Narrative(w)) : w \in {1, 299, 300, 400, 401}}
  ELSE NarrativeResponses

\* schemas/summary.ts: SummaryStringSchema
SummaryStringSchema(text) == text.words >= 300 /\ text.words <= 400

\* the catch around getSummaryText: the generated fallback summary
FallbackSummary == [kind |-> "fallback", words |-> 0]

\* processZipFile has returned: the handler builds docs and aggregate and calls
\* getSummaryText, whose first invokeLLM throws without a credential
BuildResponse ==
  /\ hpc = "returned"
  /\ LET built == FoldFiles(processingResult.processedFiles,
                            [docs |-> <<>>, src |-> <<>>, aggregate |-> ZeroAggregate])
     IN /\ docs' = built.docs
        /\ docSrc' = built.src
        /\ aggregate' = built.aggregate
  /\ IF apiKey
     THEN /\ narrativeRequests' = narrativeRequests + 1
          /\ hpc' = "summary1"
          /\ UNCHANGED summaryText
     ELSE /\ summaryText' = FallbackSummary
          /\ hpc' = "persist"
          /\ UNCHANGED narrativeRequests
  /\ UNCHANGED <<nreplies, archive, files, batchStart, fstate, fresult, faults,
                 processedFiles, processingResult, persisted, reply>>
  /\ UNCHANGED callVars
  /\ UNCHANGED timeVars
  /\ UNCHANGED auxVars

\* the catch block of invokeLLM: what it re-throws
invokeLLMCatch(error) ==
  IF includes(error.message, <<"API", "key">>)
    THEN MkError("Error", <<"OpenAI", "API", "key", "is", "invalid", "or", "missing">>)
  ELSE IF includes(error.message, <<"rate", "limit">>)
    THEN MkError("Error", <<"OpenAI", "API", "rate", "limit", "exceeded.",
                           "Please", "try", "again", "later.">>)
  ELSE IF includes(error.message, <<"quota">>)
    THEN MkError("Error", <<"OpenAI", "API", "quota", "exceeded.",
                           "Please", "check", "your", "billing.">>)
  ELSE IF includes(error.message, <<"model">>)
    THEN MkError("Error", <<"OpenAI", "model", "is", "not", "available", "or", "invalid">>)
  ELSE MkError("Error", <<"LLM", "call", "failed:">> \o error.message)

\* invokeLLM: the answer it returns to getSummaryText, or the error it throws
\* (an empty content is thrown as 'LLM returned empty response')
invokeLLM(resp) ==
  IF ~resp.ok THEN Rejected(invokeLLMCatch(resp.error))
  ELSE IF resp.value.words = 0
    THEN Rejected(invokeLLMCatch(MkError("Error", MsgEmptyResponse)))
  ELSE Fulfilled(resp.value)

\* SummaryAfterFirst in a handler without the catch around getSummaryText: a
\* throw leaves the summary unset
SummaryAfterFirst_NoFallback(result) ==
  IF ~result.ok THEN [pc |-> "persist", summary |-> NoSummary]
  ELSE IF SummaryStringSchema(result.value)
    THEN [pc |-> "persist", summary |-> result.value]
  ELSE [pc |-> "summary2", summary |-> NoSummary]

\* getSummaryText after the first invokeLLM: return the answer, go on to the
\* corrective follow-up, or throw (the handler then uses its fallback text)
SummaryAfterFirst(result) ==
  IF ~result.ok THEN [pc |-> "persist", summary |-> FallbackSummary]
  ELSE IF SummaryStringSchema(result.value)
    THEN [pc |-> "persist", summary |-> result.value]
  ELSE [pc |-> "summary2", summary |-> NoSummary]

\* SummaryAfterSecond that treats a corrected answer outside the bound as a failure
SummaryAfterSecond_RejectsInvalid(result) ==
  IF ~result.ok \/ ~SummaryStringSchema(result.value) THEN FallbackSummary
  ELSE result.value

\* getSummaryText after the second invokeLLM: the answer is returned whether or
\* not it validates; a throw goes to the handler's fallback text
SummaryAfterSecond(result) ==
  IF ~result.ok THEN FallbackSummary ELSE result.value

\* getSummaryText: the first answer arrives
SummaryFirstReply ==
  /\ hpc = "summary1"
  /\ \E resp \in NarrativeResponsesFor(archive) :
       LET result == invokeLLM(resp)
           d == SummaryAfterFirst(result)
       IN /\ nreplies' = IF result.ok THEN Append(nreplies, result.value) ELSE nreplies
          /\ hpc' = d.pc
          /\ IF d.pc = "summary2"
             THEN /\ narrativeRequests' = narrativeRequests + 1
                  /\ UNCHANGED summaryText
             ELSE /\ summaryText' = d.summary
                  /\ UNCHANGED narrativeRequests
  /\ UNCHANGED <<archive, files, batchStart, fstate, fresult, faults,
                 processedFiles, processingResult, docs, docSrc, aggregate,
                 persisted, reply>>
  /\ UNCHANGED callVars
  /\ waited' = 0
  /\ UNCHANGED elapsed
  /\ UNCHANGED auxVars

\* getSummaryText: the answer to the corrective follow-up arrives
SummarySecondReply ==
  /\ hpc = "summary2"
  /\ \E resp \in NarrativeResponsesFor(archive) :
       LET result == invokeLLM(resp) IN
       /\ nreplies' = IF result.ok THEN Append(nreplies, result.value) ELSE nreplies
       /\ summaryText' = SummaryAfterSecond(result)
  /\ hpc' = "persist"
  /\ UNCHANGED <<archive, files, batchStart, fstate, fresult, faults,
                 processedFiles, processingResult, docs, docSrc, aggregate,
                 narrativeRequests, persisted, reply>>
  /\ UNCHANGED callVars
  /\ waited' = 0
  /\ UNCHANGED elapsed
  /\ UNCHANGED auxVars

\* the AnalyseResponse of the handler
Response ==
  [kind |-> "response", docs |-> docs, aggregate |-> aggregate,
   summaryText |-> summaryText, errors |-> processingResult.processingErrors]

\* Persist without the await on getSummaryText: the write can happen while the
\* narrative request is still pending
Persist_NotAwaitingSummary ==
  /\ hpc \in {"summary1", "summary2", "persist"}
  /\ persisted' = Append(persisted, Response)
  /\ reply' = [kind |-> "result", status |-> 200, body |-> Response]
  /\ hpc' = "replied"
  /\ UNCHANGED <<nreplies, archive, files, batchStart, fstate, fresult, faults,
                 processedFiles, processingResult, docs, docSrc, aggregate,
                 summaryText, narrativeRequests>>
  /\ UNCHANGED callVars
  /\ UNCHANGED timeVars
  /\ UNCHANGED auxVars

\* await repository.saveAnalysis settles, then reply.send; a failed write goes
\* to the handler's catch block, which answers 500
Persist ==
  /\ hpc = "persist"
  /\ \E written \in BOOLEAN :
       IF written
       THEN /\ persisted' = Append(persisted, Response)
            /\ reply' = [kind |-> "result", status |-> 200, body |-> Response]
       ELSE /\ persisted' = persisted
            /\ reply' = [kind |-> "error", status |-> 500, body |-> NoValue]
  /\ hpc' = "replied"
  /\ UNCHANGED <<nreplies, archive, files, batchStart, fstate, fresult, faults,
                 processedFiles, processingResult, docs, docSrc, aggregate,
                 summaryText, narrativeRequests>>
  /\ UNCHANGED callVars
  /\ UNCHANGED timeVars
  /\ UNCHANGED auxVars

\* no withRetry call of its own is tracked during a run (Spec)
CallIdle ==
  /\ opKind = "guard"
  /\ config = PipelineRetryConfig
  /\ attempt = 0 /\ calls = 0 /\ sleeps = 0 /\ sleepArgs = <<>>
  /\ rpc = "idle"
  /\ lastError = NoError
  /\ rresult = NoValue
  /\ opOut = Pending
  /\ opLog = <<>>
  /\ gpc = "idle" /\ requests = 0 /\ greq = 0 /\ greplies = <<>>
  /\ content = NoValue

\* the archives of a run: a corrupt one, and readable ones with 0..MaxFiles
\* admitted entries; an over-size entry (skipped with a reason) and an entry of
\* an explicitly unsupported type are explored on archives of at most
\* SmallArchive admitted entries
Archives ==
  {a \in [corrupt : BOOLEAN, entries : 0..MaxFiles, oversize : BOOLEAN,
          unsupported : BOOLEAN] :
     /\ a.corrupt => (a.entries = 0 /\ ~a.oversize /\ ~a.unsupported)
     /\ a.oversize => a.entries <= SmallArchive
     /\ a.unsupported => a.entries <= SmallArchive}

Init ==
  /\ CallIdle
  /\ ClockZero
  /\ AuxIdle
  /\ apiKey \in BOOLEAN
  /\ archive \in Archives
  /\ hpc = "unpacking"
  /\ files = 0 /\ batchStart = 0 /\ faults = 0
  /\ fstate = [f \in 1..MaxFiles |-> "none"]
  /\ fresult = [f \in 1..MaxFiles |-> Pending]
  /\ processedFiles = <<>>
  /\ processingResult = NoProcessingResult
  /\ docs = <<>> /\ docSrc = <<>>
  /\ aggregate = ZeroAggregate
  /\ summaryText = NoSummary
  /\ narrativeRequests = 0
  /\ nreplies = <<>>
  /\ persisted = <<>>
  /\ reply = NoReply

Next ==
  \/ Unpack
  \/ StartBatch
  \/ \E f \in 1..MaxFiles : FinishFile(f)
  \/ JoinBatch
  \/ BuildResponse
  \/ SummaryFirstReply
  \/ SummarySecondReply
  \/ Persist

Spec == Init /\ [][Next]_vars

\* ================================================================ SpecTime
\* The same operations observed with a clock: one guarded per-document
\* analysis under withRetry, or one run over a small archive.  Nothing in the
\* server reads the clock or arms a timer around a model request (TIMEOUTS is
\* not referenced), so the passing of time changes no program state.
Min(a, b) == IF a < b THEN a ELSE b

\* a model request has been issued and has not been answered
RequestInFlight ==
  \/ rpc = "awaitFn" /\ gpc \in {"req1", "req2"}
  \/ hpc \in {"summary1", "summary2"}

\* the run has started and has not answered the caller
RunInProgress == hpc \notin {"idle", "replied"}

\* TickMs of wall-clock time pass while the program awaits
TimePasses ==
  /\ RequestInFlight \/ RunInProgress
  /\ elapsed' = IF RunInProgress THEN Min(elapsed + TickMs, MaxElapsed) ELSE elapsed
  /\ waited' = IF RequestInFlight THEN Min(waited + TickMs, MaxWaited) ELSE waited
  /\ <<elapsed', waited'>> # <<elapsed, waited>>
  /\ UNCHANGED callVars
  /\ UNCHANGED runVars
  /\ UNCHANGED auxVars

InitTime ==
  \/ InitCall /\ opKind = "guard"
  \/ Init /\ archive.entries <= MaxTimedFiles

NextTime ==
  \/ RetryInvoke
  \/ RetryHandle
  \/ RetrySleepDone
  \/ GuardStart
  \/ GuardFirstReply
  \/ GuardSecondReply
  \/ Unpack
  \/ StartBatch
  \/ \E f \in 1..MaxFiles : FinishFile(f)
  \/ JoinBatch
  \/ BuildResponse
  \/ SummaryFirstReply
  \/ SummarySecondReply
  \/ Persist
  \/ TimePasses

SpecTime == InitTime /\ [][NextTime]_vars


\* ============================================================== SpecExport
\* Up to MaxExports calls of exportHandler, each suspended at its awaits, over
\* a repository holding one stored AnalysisResult.  Strings are sequences of
\* UTF-16 code units; "LS" is a lone surrogate, "FFFD" the replacement
\* character.

\* the AnalysisResults that may be stored, by their summaryText
StoredAnalyses == {[summaryText |-> <<"s">>], [summaryText |-> <<"s", "LS">>]}

\* new Date().toISOString().split('T')[0] on day d
DateUnit(d) == IF d = 1 THEN "day1" ELSE IF d = 2 THEN "day2" ELSE "later"

\* MarkdownGenerator.generateVDRSummary: header with the current date, then the
\* sections rendered from the analysis data
generateVDRSummary(analysisData, d) ==
  <<"#", DateUnit(d)>> \o analysisData.summaryText

\* the UTF-8 encoding of a string (fs.writeFile(.., 'utf-8'), reply.send of a
\* string): a lone surrogate is written as the bytes of U+FFFD
utf8Encode(str) == [i \in 1..Len(str) |-> IF str[i] = "LS" THEN "FFFD" ELSE str[i]]

\* fs.readFile(.., 'utf-8') of bytes that utf8Encode wrote
utf8Decode(bytes) == bytes

\* the entry of xlog for the reply of call c
ExportReply(c, status, body) ==
  [id |-> c.id, status |-> status, body |-> body, rendered |-> c.rendered,
   seen |-> c.seen]

\* a request arrives: the handler runs up to await repository.markdownExists
ExportStart(r, id) ==
  /\ xreq[r].pc = "idle"
  /\ \A q \in 1..(r - 1) : xreq[q].pc # "idle"
  /\ xreq' = [xreq EXCEPT ![r] = [pc |-> "markdownExists", id |-> id,
                                  markdown |-> <<>>, rendered |-> FALSE,
                                  seen |-> Len(xlog)]]
  /\ UNCHANGED <<today, analysisFiles, markdownFiles, renderCalls, xlog>>
  /\ UNCHANGED <<callVars, runVars, timeVars, aggVars, laterVars>>

\* markdownExists settles: on to getMarkdown, or on to getAnalysis
ExportExists(r) ==
  /\ xreq[r].pc = "markdownExists"
  /\ xreq' = [xreq EXCEPT ![r].pc =
                IF markdownFiles[xreq[r].id] # <<>> THEN "getMarkdown"
                ELSE "getAnalysis"]
  /\ UNCHANGED <<today, analysisFiles, markdownFiles, renderCalls, xlog>>
  /\ UNCHANGED <<callVars, runVars, timeVars, aggVars, laterVars>>

\* getMarkdown settles: the cached markdown is sent
ExportGetMarkdown(r) ==
  /\ xreq[r].pc = "getMarkdown"
  /\ LET cachedMarkdown == utf8Decode(markdownFiles[xreq[r].id][1]) IN
     xlog' = Append(xlog, ExportReply(xreq[r], 200, utf8Encode(cachedMarkdown)))
  /\ xreq' = [xreq EXCEPT ![r].pc = "done"]
  /\ UNCHANGED <<today, analysisFiles, markdownFiles, renderCalls>>
  /\ UNCHANGED <<callVars, runVars, timeVars, aggVars, laterVars>>

\* getAnalysis settles: a missing file goes to the catch block (500); otherwise
\* the markdown is generated and the handler runs up to await saveMarkdown
ExportGetAnalysis(r) ==
  /\ xreq[r].pc = "getAnalysis"
  /\ IF analysisFiles[xreq[r].id] = <<>>
     THEN /\ xlog' = Append(xlog, ExportReply(xreq[r], 500, <<>>))
          /\ xreq' = [xreq EXCEPT ![r].pc = "done"]
          /\ UNCHANGED renderCalls
     ELSE /\ xreq' = [xreq EXCEPT
                        ![r].pc = "saveMarkdown",
                        ![r].rendered = TRUE,
                        ![r].markdown =
                           generateVDRSummary(analysisFiles[xreq[r].id][1], today)]
          /\ renderCalls' = renderCalls + 1
          /\ UNCHANGED xlog
  /\ UNCHANGED <<today, analysisFiles, markdownFiles>>
  /\ UNCHANGED <<callVars, runVars, timeVars, aggVars, laterVars>>

\* saveMarkdown settles: the generated markdown is sent, or a failed write goes
\* to the catch block (500)
ExportSaveMarkdown(r) ==
  /\ xreq[r].pc = "saveMarkdown"
  /\ \E written \in BOOLEAN :
       LET c == [xreq[r] EXCEPT !.pc = "done"] IN
       IF written
       THEN /\ markdownFiles' =
                 [markdownFiles EXCEPT ![c.id] = <<utf8Encode(c.markdown)>>]
            /\ xlog' = Append(xlog, ExportReply(c, 200, utf8Encode(c.markdown)))
       ELSE /\ xlog' = Append(xlog, ExportReply(c, 500, <<>>))
            /\ UNCHANGED markdownFiles
  /\ xreq' = [xreq EXCEPT ![r].pc = "done"]
  /\ UNCHANGED <<today, analysisFiles, renderCalls>>
  /\ UNCHANGED <<callVars, runVars, timeVars, aggVars, laterVars>>

\* midnight passes
DayPasses ==
  /\ today < MaxDays
  /\ today' = today + 1
  /\ UNCHANGED <<analysisFiles, markdownFiles, renderCalls, xreq, xlog>>
  /\ UNCHANGED <<callVars, runVars, timeVars, aggVars, laterVars>>

\* the repository at the start: a1 is the identifier of a stored AnalysisResult,
\* a2 one under which nothing was stored; nothing has been rendered
InitExport ==
  /\ CallIdle /\ apiKey = TRUE
  /\ RunIdle
  /\ ClockZero
  /\ AggIdle
  /\ LaterIdle
  /\ today = 1
  /\ \E a \in StoredAnalyses :
       analysisFiles = [id \in Identifiers |-> IF id = "a1" THEN <<a>> ELSE <<>>]
  /\ markdownFiles = [id \in Identifiers |-> <<>>]
  /\ renderCalls = 0
  /\ xreq = [r \in 1..MaxExports |-> NoExportCall]
  /\ xlog = <<>>

NextExport ==
  \/ \E r \in 1..MaxExports, id \in Identifiers : ExportStart(r, id)
  \/ \E r \in 1..MaxExports : ExportExists(r)
  \/ \E r \in 1..MaxExports : ExportGetMarkdown(r)
  \/ \E r \in 1..MaxExports : ExportGetAnalysis(r)
  \/ \E r \in 1..MaxExports : ExportSaveMarkdown(r)
  \/ DayPasses

SpecExport == InitExport /\ [][NextExport]_vars

\* =========================================================== SpecAggregate
\* A sequence of aggregate computations in one process: aggregateResults and
\* createEmptyAggregate of utils/aggregate.ts, and the fold of analyseHandler.

\* the findings handed to the aggregator: every category, two shapes
AggFindings ==
  {MkJson("a.txt", c, shape[1], shape[2]) :
     c \in Categories, shape \in {<<<<3>>, <<>>>>, <<<<3, 4>>, <<7>>>>}}

\* the lists of at most MaxDocs findings
AggInputs == UNION {[1..n -> AggFindings] : n \in 0..MaxDocs}

\* the processedFiles lists of at most MaxDocs files handed to the handler's fold
HandlerInputs ==
  UNION {[1..n -> {MkProcessedFile(1, <<>>, FileReply(1), <<>>),
                   MkProcessedFile(2, <<>>, FileReply(2), <<>>),
                   MkProcessedFile(3, <<>>, NoValue,
                                   <<MkNote("LLM analysis failed for", 3)>>)}] :
           n \in 0..MaxDocs}

\* createEmptyAggregate: a fresh literal
createEmptyAggregate == [c \in Categories |-> [facts |-> 0, red_flags |-> 0]]

\* initial with the literal hoisted to module level: the object an earlier call
\* accumulated into and returned is the accumulator again
initial_Hoisted(earlier) ==
  IF earlier = NoValue
  THEN [c \in Categories |-> [facts |-> 0, red_flags |-> 0]]
  ELSE earlier

\* const initial of aggregateResults: the literal is evaluated at every call,
\* whatever an earlier call returned
initial(earlier) == [c \in Categories |-> [facts |-> 0, red_flags |-> 0]]

\* the reduce callback that overwrites the counts instead of adding to them
reduceStep_Overwrites(acc, doc) ==
  [acc |-> [acc EXCEPT ![doc.category] =
                         [facts |-> Len(doc.facts),
                          red_flags |-> Len(doc.red_flags)]],
   doc |-> doc]

\* the reduce callback: the accumulator it returns, and doc as it leaves it (it
\* reads doc.category, doc.facts.length and doc.red_flags.length only)
reduceStep(acc, doc) ==
  [acc |-> [acc EXCEPT ![doc.category] =
                         [facts |-> @.facts + Len(doc.facts),
                          red_flags |-> @.red_flags + Len(doc.red_flags)]],
   doc |-> doc]

RECURSIVE reduce(_, _, _)
\* docs.reduce(callback, acc): the final accumulator and the array afterwards
reduce(array, acc, visited) ==
  IF array = <<>> THEN [aggregate |-> acc, docs |-> visited]
  ELSE LET step == reduceStep(acc, Head(array))
       IN reduce(Tail(array), step.acc, Append(visited, step.doc))

\* aggregateResults(docs), called after an earlier call returned earlier
aggregateResults(array, earlier) == reduce(array, initial(earlier), <<>>)

\* has a count above zero
NonZero(agg) == \E c \in Categories : agg[c].facts > 0 \/ agg[c].red_flags > 0

\* a call of aggregateResults
CallAggregateResults ==
  /\ aggCalls < MaxAggCalls
  /\ \E array \in AggInputs :
       LET r == aggregateResults(array, aggOut) IN
       /\ aggArg' = array
       /\ aggDocs' = r.docs
       /\ aggOut' = r.aggregate
  /\ aggOp' = "aggregateResults"
  /\ aggCalls' = aggCalls + 1
  /\ aggDirty' = (aggDirty \/ (aggOp # "none" /\ NonZero(aggOut)))
  /\ UNCHANGED <<callVars, runVars, timeVars, exportVars, laterVars>>

\* a call of createEmptyAggregate
CallCreateEmptyAggregate ==
  /\ aggCalls < MaxAggCalls
  /\ aggArg' = <<>>
  /\ aggDocs' = <<>>
  /\ aggOut' = createEmptyAggregate
  /\ aggOp' = "createEmptyAggregate"
  /\ aggCalls' = aggCalls + 1
  /\ aggDirty' = (aggDirty \/ (aggOp # "none" /\ NonZero(aggOut)))
  /\ UNCHANGED <<callVars, runVars, timeVars, exportVars, laterVars>>

\* step 5 of analyseHandler for one request: docs and aggregate from the
\* processed files
HandlerAggregate ==
  /\ aggCalls < MaxAggCalls
  /\ \E pfs \in HandlerInputs :
       LET built == FoldFiles(pfs, [docs |-> <<>>, src |-> <<>>,
                                    aggregate |-> ZeroAggregate]) IN
       /\ aggArg' = built.docs
       /\ aggDocs' = built.docs
       /\ aggOut' = built.aggregate
  /\ aggOp' = "handler"
  /\ aggCalls' = aggCalls + 1
  /\ aggDirty' = (aggDirty \/ (aggOp # "none" /\ NonZero(aggOut)))
  /\ UNCHANGED <<callVars, runVars, timeVars, exportVars, laterVars>>

InitAggregate ==
  /\ CallIdle /\ apiKey = TRUE
  /\ RunIdle
  /\ ClockZero
  /\ ExportIdle
  /\ AggIdle
  /\ LaterIdle

NextAggregate ==
  \/ CallAggregateResults
  \/ CallCreateEmptyAggregate
  \/ HandlerAggregate

SpecAggregate == InitAggregate /\ [][NextAggregate]_vars

\* ================================================================ SpecGate
\* The type gate: validateExtractedFiles over the files extractZipFiles read,
\* then, for a batch that passed, the extractor processSingleFile hands each
\* file to.

\* filenames, as their dot-separated parts
GateNames ==
  {<<"report", "pdf">>, <<"data", "txt">>, <<"notes", "md">>,
   <<"setup", "exe">>, <<"README">>}

\* what fileTypeFromBuffer makes of a buffer: a type it knows ("exe", "pdf"),
\* undefined ("none"), or an exception ("raises")
Sniffs == {"exe", "pdf", "none", "raises"}

\* the files: textual says whether validateTextContent accepts the buffer; a
\* buffer with a detected binary type is not readable text
GateFiles ==
  {f \in [filename : GateNames, sniff : Sniffs, textual : BOOLEAN] :
     f.sniff \in {"exe", "pdf"} => ~f.textual}

SUPPORTED_FILE_TYPES == {"pdf", "docx", "xlsx", "csv", "txt"}

\* getFileExtension: '' for a name without a dot
getFileExtension(filename) ==
  IF Len(filename) > 1 THEN filename[Len(filename)] ELSE ""

\* validateTextContent(buffer)
validateTextContent(file) == file.textual

\* validateFileBuffer(buffer, filename): content-based detection first, the
\* filename's extension when nothing is detected or detection throws
validateFileBuffer(file) ==
  IF file.sniff \notin {"none", "raises"}
  THEN [isSupported |-> file.sniff \in SUPPORTED_FILE_TYPES,
        extension |-> file.sniff, detected |-> file.sniff]
  ELSE LET extension == getFileExtension(file.filename)
           isSupported == extension \in SUPPORTED_FILE_TYPES
       IN IF file.sniff = "none" /\ isSupported /\ extension \in {"csv", "txt"}
          THEN [isSupported |-> validateTextContent(file),
                extension |-> extension, detected |-> ""]
          ELSE [isSupported |-> isSupported,
                extension |-> extension, detected |-> ""]

RECURSIVE validateLoop(_, _)
\* the for loop of validateExtractedFiles over the files
validateLoop(fs, acc) ==
  IF fs = <<>> THEN acc
  ELSE LET file == Head(fs)
           validation == validateFileBuffer(file)
       IN validateLoop(Tail(fs),
            [unsupportedFiles |->
               IF ~validation.isSupported
               THEN Append(acc.unsupportedFiles, file.filename)
               ELSE acc.unsupportedFiles,
             detectionErrors |->
               IF validation.detected = ""
               THEN Append(acc.detectionErrors, file.filename)
               ELSE acc.detectionErrors])

\* the filter dropped: every file validateFileBuffer does not support counts
explicitlyUnsupportedName_Always(filename) == TRUE

\* the filter that keeps the explicitly unsupported names: the text after the
\* last dot (the whole name when it has none) is outside the list
explicitlyUnsupportedName(filename) ==
  filename[Len(filename)] \notin {"pdf", "docx", "xlsx", "csv", "txt"}

\* validateExtractedFiles(files)
validateExtractedFiles(fs) ==
  LET looped == validateLoop(fs, [unsupportedFiles |-> <<>>, detectionErrors |-> <<>>])
      explicitlyUnsupported == SelectSeq(looped.unsupportedFiles, explicitlyUnsupportedName)
      thrown ==
        IF Len(fs) = 0
          THEN MkError("FileValidationError", <<"No", "files", "found", "in", "ZIP", "archive">>)
        ELSE IF Len(fs) > MAX_FILES
          THEN MkError("FileValidationError", <<"Too", "many", "files", "in", "ZIP", "archive">>)
        ELSE IF Len(explicitlyUnsupported) > 0
          THEN MkError("UnsupportedFileTypeError", explicitlyUnsupported[1])
        ELSE NoError
  IN [error |-> thrown,
      unsupportedFiles |-> IF Len(fs) = 0 THEN <<>> ELSE looped.unsupportedFiles,
      detectionErrors |-> IF Len(fs) = 0 THEN <<>> ELSE looped.detectionErrors]

\* truncateFile(buffer, fileType): the extractor the switch selects, or the
\* default branch, which throws
truncateFile(extension) ==
  IF extension \in {"pdf", "docx", "xlsx", "csv", "txt"} THEN extension ELSE "unsupported"

\* extractZipFiles, on 'end': validate the batch
GateValidate ==
  /\ gpos = "validate"
  /\ LET v == validateExtractedFiles(gateFiles) IN
     /\ unsupportedFiles' = v.unsupportedFiles
     /\ detectionErrors' = v.detectionErrors
     /\ gateError' = v.error
     /\ gpos' = IF v.error = NoError THEN "passed" ELSE "rejected"
  /\ UNCHANGED <<gateFiles, reached>>
  /\ UNCHANGED besideGate

\* processSingleFile(file), first step: truncateFile(buffer, getFileExtension(name))
GateProcessFile(f) ==
  /\ gpos = "passed"
  /\ f \in DOMAIN gateFiles
  /\ reached[f] = "none"
  /\ reached' = [reached EXCEPT ![f] = truncateFile(getFileExtension(gateFiles[f].filename))]
  /\ UNCHANGED <<gateFiles, gpos, unsupportedFiles, detectionErrors, gateError>>
  /\ UNCHANGED besideGate

InitGate ==
  /\ CallIdle /\ apiKey = TRUE
  /\ RunIdle
  /\ ClockZero
  /\ ExportIdle
  /\ AggIdle
  /\ gateFiles \in UNION {[1..n -> GateFiles] : n \in 0..MaxGateFiles}
  /\ gpos = "validate"
  /\ unsupportedFiles = <<>> /\ detectionErrors = <<>>
  /\ gateError = NoError
  /\ reached = [f \in 1..MaxGateFiles |-> "none"]
  /\ ZipIdle
  /\ TextIdle
  /\ ClassifyIdle
  /\ BackoffIdle
  /\ FileIdle

NextGate ==
  \/ GateValidate
  \/ \E f \in 1..MaxGateFiles : GateProcessFile(f)

SpecGate == InitGate /\ [][NextGate]_vars

\* ================================================================ SpecText
\* utils/file-truncation.ts: the extractor of a file hands its raw text to
\* truncateText, which normalizes it and cuts it to MAX_TEXT_LENGTH.
\* A text is a sequence of runs [ch, n]: n times the character ch, where ch is
\* "a" (any character that is not whitespace, NUL or a dot of the ellipsis),
\* "sp", "tab", "cr", "lf", "nul" or "dot".

Run(ch, n) == [ch |-> ch, n |-> n]

RECURSIVE Canon(_)
\* the same text with adjacent runs of one character merged
Canon(t) ==
  IF Len(t) < 2 THEN t
  ELSE IF t[1].ch = t[2].ch
    THEN Canon(<<Run(t[1].ch, t[1].n + t[2].n)>> \o Tail(Tail(t)))
  ELSE <<t[1]>> \o Canon(Tail(t))

RECURSIVE TextLength(_)
\* text.length
TextLength(t) == IF t = <<>> THEN 0 ELSE t[1].n + TextLength(Tail(t))

\* .replace(/\u0000/g, '')
stripNuls(t) == Canon(SelectSeq(t, LAMBDA r : r.ch # "nul"))

RECURSIVE crlfScan(_)
crlfScan(t) ==
  IF Len(t) < 2 THEN t
  ELSE IF t[1].ch = "cr" /\ t[2].ch = "lf"
    THEN (IF t[1].n > 1 THEN <<Run("cr", t[1].n - 1)>> ELSE <<>>)
         \o <<t[2]>> \o crlfScan(Tail(Tail(t)))
  ELSE <<t[1]>> \o crlfScan(Tail(t))

\* .replace(/\r\n/g, '\n')
crlfToLf(t) == Canon(crlfScan(t))

\* [^\S\n]: whitespace other than the newline
HorizontalSpace == {"sp", "tab", "cr"}

RECURSIVE dropHorizontal(_)
dropHorizontal(t) ==
  IF t # <<>> /\ t[1].ch \in HorizontalSpace THEN dropHorizontal(Tail(t)) ELSE t

RECURSIVE collapseSpaces(_)
\* .replace(/[^\S\n]+/g, ' ')
collapseSpaces(t) ==
  IF t = <<>> THEN <<>>
  ELSE IF t[1].ch \in HorizontalSpace
    THEN <<Run("sp", 1)>> \o collapseSpaces(dropHorizontal(t))
  ELSE <<t[1]>> \o collapseSpaces(Tail(t))

\* the newline cap left out
capNewlines_Missing(t) == t

\* .replace(/\n{3,}/g, '\n\n')
capNewlines(t) ==
  [i \in 1..Len(t) |-> IF t[i].ch = "lf" /\ t[i].n >= 3 THEN Run("lf", 2) ELSE t[i]]

Whitespace == {"sp", "tab", "cr", "lf"}

RECURSIVE trimStart(_)
trimStart(t) == IF t # <<>> /\ t[1].ch \in Whitespace THEN trimStart(Tail(t)) ELSE t

RECURSIVE trimEnd(_)
trimEnd(t) ==
  IF t # <<>> /\ t[Len(t)].ch \in Whitespace THEN trimEnd(SubSeq(t, 1, Len(t) - 1)) ELSE t

\* .trim()
trim(t) == trimEnd(trimStart(t))

\* normalizeText(text)
normalizeText(t) ==
  trim(capNewlines(collapseSpaces(crlfToLf(stripNuls(Canon(t))))))

RECURSIVE substring(_, _)
\* text.substring(0, k)
substring(t, k) ==
  IF t = <<>> \/ k <= 0 THEN <<>>
  ELSE IF t[1].n >= k THEN <<Run(t[1].ch, k)>>
  ELSE <<t[1]>> \o substring(Tail(t), k - t[1].n)

RECURSIVE lastIndexOfSpace(_)
\* text.lastIndexOf(' '), -1 without a space
lastIndexOfSpace(t) ==
  IF t = <<>> THEN -1
  ELSE IF t[Len(t)].ch = "sp" THEN TextLength(t) - 1
  ELSE lastIndexOfSpace(SubSeq(t, 1, Len(t) - 1))

\* truncateText that keeps the whole prefix and lets the ellipsis go past the limit
truncateText_NoReserve(text, maxLength) ==
  LET normalizedText == normalizeText(text) IN
  IF TextLength(normalizedText) <= maxLength
  THEN [text |-> normalizedText, truncated |-> FALSE, originalLength |-> TextLength(text)]
  ELSE [text |-> Canon(substring(normalizedText, maxLength) \o <<Run("dot", 3)>>),
        truncated |-> TRUE, originalLength |-> TextLength(text)]

\* truncateText(text, maxLength)
truncateText(text, maxLength) ==
  LET normalizedText == normalizeText(text) IN
  IF TextLength(normalizedText) <= maxLength
  THEN [text |-> normalizedText, truncated |-> FALSE, originalLength |-> TextLength(text)]
  ELSE LET availableLength == maxLength - 3
           truncated == substring(normalizedText, availableLength)
           lastSpaceIndex == lastIndexOfSpace(truncated)
           finalText == IF 10 * lastSpaceIndex > availableLength * 8
                        THEN substring(truncated, lastSpaceIndex)
                        ELSE truncated
       IN [text |-> Canon(finalText \o <<Run("dot", 3)>>),
           truncated |-> TRUE, originalLength |-> TextLength(text)]

\* truncatePDF, truncateDOCX, truncateTXT and truncateCSV on the text they got
\* out of the buffer (truncateCSV: of the first 200 rows)
truncatePDF(text) == truncateText(text, MAX_TEXT_LENGTH)
truncateDOCX(text) == truncateText(text, MAX_TEXT_LENGTH)
truncateCSV(text) == truncateText(text, MAX_TEXT_LENGTH)
truncateTXT(text) == truncateText(text, MAX_TEXT_LENGTH)

\* truncateXLSX on allText, read from rows rows of the sheets
truncateXLSX(allText, rows) ==
  [text |-> truncateText(allText, MAX_TEXT_LENGTH).text,
   truncated |-> rows >= XLSX_MAX_ROWS,
   originalLength |-> TextLength(allText)]

\* the characters of an input text, and the run lengths: short texts take
\* every character, long ones words and spaces around the limits
TextChars == {"a", "sp", "tab", "cr", "lf", "nul"}
ShortCounts == {1, 3}
LongCounts ==
  {3, 3003, 11997, 11998, MAX_TEXT_LENGTH - 3, MAX_TEXT_LENGTH + 1}

ShortTexts ==
  UNION {[1..k -> {Run(c, n) : c \in TextChars, n \in ShortCounts}] : k \in 0..MaxRuns}

LongTexts ==
  UNION {[1..k -> {Run(c, n) : c \in {"a", "sp"}, n \in LongCounts}] : k \in 1..MaxLongRuns}

\* the rows a spreadsheet may have given
RowCounts == {1, XLSX_MAX_ROWS}

\* truncateFile(buffer, fileType) for a supported type, once the extractor has
\* the raw text
TruncateFile ==
  /\ tpos = "extracted"
  /\ truncation' =
       CASE fileType = "pdf" -> truncatePDF(rawText)
         [] fileType = "docx" -> truncateDOCX(rawText)
         [] fileType = "xlsx" -> truncateXLSX(rawText, totalRows)
         [] fileType = "csv" -> truncateCSV(rawText)
         [] fileType = "txt" -> truncateTXT(rawText)
  /\ tpos' = "done"
  /\ UNCHANGED <<rawText, fileType, totalRows>>
  /\ UNCHANGED besideText

InitText ==
  /\ CallIdle /\ apiKey = TRUE
  /\ RunIdle
  /\ ClockZero
  /\ ExportIdle
  /\ AggIdle
  /\ GateIdle
  /\ ZipIdle
  /\ ClassifyIdle
  /\ BackoffIdle
  /\ FileIdle
  /\ rawText \in ShortTexts \cup LongTexts
  /\ fileType \in SUPPORTED_FILE_TYPES
  /\ totalRows \in (IF fileType = "xlsx" THEN RowCounts ELSE {0})
  /\ truncation = NoValue
  /\ tpos = "extracted"

NextText == TruncateFile

SpecText == InitText /\ [][NextText]_vars

\* ============================================================ SpecClassify
\* utils/category-classifier.ts: a sequence of calls of classifyDocument in one
\* process. Strings are sequences of characters.

\* CATEGORY_KEYWORDS, in declaration order ('other' has no keywords)
CATEGORY_KEYWORDS ==
  [financial |->
    <<<<"r", "e", "v", "e", "n", "u", "e">>,
      <<"p", "r", "o", "f", "i", "t">>,
      <<"i", "n", "c", "o", "m", "e">>,
      <<"e", "x", "p", "e", "n", "s", "e">>,
      <<"b", "a", "l", "a", "n", "c", "e", " ", "s", "h", "e", "e", "t">>,
      <<"c", "a", "s", "h", " ", "f", "l", "o", "w">>,
      <<"a", "u", "d", "i", "t">>,
      <<"f", "i", "n", "a", "n", "c", "i", "a", "l", " ", "s", "t", "a", "t", "e", "m", "e", "n", "t">>,
      <<"b", "u", "d", "g", "e", "t">>,
      <<"f", "o", "r", "e", "c", "a", "s", "t">>,
      <<"e", "b", "i", "t", "d", "a">>,
      <<"a", "s", "s", "e", "t", "s">>,
      <<"l", "i", "a", "b", "i", "l", "i", "t", "i", "e", "s">>,
      <<"e", "q", "u", "i", "t", "y">>,
      <<"p", "&", "l">>,
      <<"q", "u", "a", "r", "t", "e", "r", "l", "y">>,
      <<"e", "a", "r", "n", "i", "n", "g", "s">>>>,
   legal |->
    <<<<"c", "o", "n", "t", "r", "a", "c", "t">>,
      <<"a", "g", "r", "e", "e", "m", "e", "n", "t">>,
      <<"l", "i", "a", "b", "i", "l", "i", "t", "y">>,
      <<"i", "n", "d", "e", "m", "n", "i", "t", "y">>,
      <<"w", "a", "r", "r", "a", "n", "t", "y">>,
      <<"c", "l", "a", "u", "s", "e">>,
      <<"l", "e", "g", "a", "l">>,
      <<"c", "o", "m", "p", "l", "i", "a", "n", "c", "e">>,
      <<"r", "e", "g", "u", "l", "a", "t", "i", "o", "n">>,
      <<"l", "i", "t", "i", "g", "a", "t", "i", "o", "n">>,
      <<"d", "i", "s", "p", "u", "t", "e">>,
      <<"s", "e", "t", "t", "l", "e", "m", "e", "n", "t">>,
      <<"j", "u", "r", "i", "s", "d", "i", "c", "t", "i", "o", "n">>,
      <<"c", "o", "u", "r", "t">>,
      <<"l", "a", "w">>>>,
   commercial |->
    <<<<"p", "r", "i", "c", "i", "n", "g">>,
      <<"p", "r", "i", "c", "e">>,
      <<"c", "o", "s", "t">>,
      <<"f", "e", "e">>,
      <<"r", "a", "t", "e">>,
      <<"d", "i", "s", "c", "o", "u", "n", "t">>,
      <<"m", "a", "r", "k", "e", "t", "i", "n", "g">>,
      <<"s", "a", "l", "e", "s">>,
      <<"c", "u", "s", "t", "o", "m", "e", "r">>,
      <<"c", "l", "i", "e", "n", "t">>,
      <<"d", "e", "a", "l">>,
      <<"t", "r", "a", "n", "s", "a", "c", "t", "i", "o", "n">>,
      <<"p", "u", "r", "c", "h", "a", "s", "e">>,
      <<"o", "r", "d", "e", "r">>,
      <<"i", "n", "v", "o", "i", "c", "e">>,
      <<"p", "a", "y", "m", "e", "n", "t">>,
      <<"q", "u", "o", "t", "a", "t", "i", "o", "n">>>>,
   operations |->
    <<<<"p", "r", "o", "c", "e", "s", "s">>,
      <<"p", "r", "o", "c", "e", "d", "u", "r", "e">>,
      <<"w", "o", "r", "k", "f", "l", "o", "w">>,
      <<"o", "p", "e", "r", "a", "t", "i", "o", "n">>,
      <<"m", "a", "n", "u", "a", "l">>,
      <<"g", "u", "i", "d", "e">>,
      <<"i", "n", "s", "t", "r", "u", "c", "t", "i", "o", "n">>,
      <<"t", "r", "a", "i", "n", "i", "n", "g">>,
      <<"s", "a", "f", "e", "t", "y">>,
      <<"s", "e", "c", "u", "r", "i", "t", "y">>,
      <<"m", "a", "i", "n", "t", "e", "n", "a", "n", "c", "e">>,
      <<"e", "q", "u", "i", "p", "m", "e", "n", "t">>,
      <<"f", "a", "c", "i", "l", "i", "t", "y">>,
      <<"l", "o", "g", "i", "s", "t", "i", "c", "s">>,
      <<"s", "u", "p", "p", "l", "y", " ", "c", "h", "a", "i", "n">>>>,
   other |-> <<>>]

\* Object.entries order of CATEGORY_KEYWORDS and of scores
CategoryOrder == <<"financial", "legal", "commercial", "operations", "other">>

UpperCase == <<"A", "B", "C", "D", "E", "F", "G", "H", "I", "J", "K", "L", "M", "N", "O", "P", "Q", "R", "S", "T", "U", "V", "W", "X", "Y", "Z">>
LowerCase == <<"a", "b", "c", "d", "e", "f", "g", "h", "i", "j", "k", "l", "m", "n", "o", "p", "q", "r", "s", "t", "u", "v", "w", "x", "y", "z">>

\* String.prototype.toLowerCase, character by character
lowerCaseChar(ch) ==
  IF \E i \in DOMAIN UpperCase : UpperCase[i] = ch
  THEN LowerCase[CHOOSE i \in DOMAIN UpperCase : UpperCase[i] = ch]
  ELSE ch

lowerCaseString(str) == [i \in DOMAIN str |-> lowerCaseChar(str[i])]

\* text.includes(keyword): keyword occurs in text as a substring
stringIncludes(str, keyword) ==
  \E i \in 0..(Len(str) - Len(keyword)) : SubSeq(str, i + 1, i + Len(keyword)) = keyword

\* the filenames and contents handed to the classifier
ClassifierFilenames == {<<"q", ".", "t", "x", "t">>, <<"L", "a", "w", ".", "p", "d", "f">>, <<"c", "a", "s", "h">>}
ClassifierContents ==
  {<<>>,
   <<"R", "E", "V", "E", "N", "U", "E">>,
   <<"c", "o", "f", "f", "e", "e">>,
   <<"f", "l", "o", "w">>,
   <<"p", "r", "o", "f", "i", "t", " ", "l", "a", "w">>,
   <<"f", "e", "e", " ", "g", "u", "i", "d", "e">>,
   <<"c", "o", "u", "r", "t", " ", "l", "a", "w", " ", "p", "r", "o", "f", "i", "t">>,
   <<"l", "a", "w", " ", "f", "e", "e", " ", "g", "u", "i", "d", "e">>}

\* `${filename} ${content}`.toLowerCase()
combinedText(filename, snippet) == lowerCaseString(filename \o <<" ">> \o snippet)

\* text.includes(keyword) for the texts above, evaluated once per text
KeywordsIncluded ==
  [text \in {combinedText(f, c) : f \in ClassifierFilenames, c \in ClassifierContents} |->
     {keyword \in UNION {{CATEGORY_KEYWORDS[c][k] : k \in DOMAIN CATEGORY_KEYWORDS[c]} :
                           c \in DOMAIN CATEGORY_KEYWORDS} :
        stringIncludes(text, keyword)}]

\* the scores object kept between calls instead of built by each call
initialScores_Kept(earlier) ==
  IF earlier = NoValue
  THEN [c \in DOMAIN CATEGORY_KEYWORDS |-> 0]
  ELSE earlier

\* const scores = { financial: 0, ... }: a literal evaluated by every call
initialScores(earlier) == [c \in DOMAIN CATEGORY_KEYWORDS |-> 0]

RECURSIVE countKeywords(_, _, _)
\* the inner for loop over the keywords of one category
countKeywords(text, keywords, n) ==
  IF keywords = <<>> THEN n
  ELSE countKeywords(text, Tail(keywords),
                     IF Head(keywords) \in KeywordsIncluded[text] THEN n + 1 ELSE n)

\* the outer loop: 'other' is skipped
scoreCategories(text, start) ==
  [c \in DOMAIN CATEGORY_KEYWORDS |->
     IF c = "other" THEN start[c] ELSE countKeywords(text, CATEGORY_KEYWORDS[c], start[c])]

\* Math.max(...Object.values(scores))
maxOf(sc) == CHOOSE m \in {sc[c] : c \in DOMAIN sc} : \A c \in DOMAIN sc : sc[c] <= m

\* Object.entries(scores).find(([_, score]) => score === maxScore): the last
\* entry in declaration order instead of the first
findEntry_Last(sc, maxScore) ==
  CategoryOrder[CHOOSE i \in DOMAIN CategoryOrder :
                  /\ sc[CategoryOrder[i]] = maxScore
                  /\ \A j \in DOMAIN CategoryOrder : sc[CategoryOrder[j]] = maxScore => j <= i]

\* Object.entries(scores).find(([_, score]) => score === maxScore)?.[0]
findEntry(sc, maxScore) ==
  CategoryOrder[CHOOSE i \in DOMAIN CategoryOrder :
                  /\ sc[CategoryOrder[i]] = maxScore
                  /\ \A j \in DOMAIN CategoryOrder : sc[CategoryOrder[j]] = maxScore => i <= j]

\* classifyDocument(filename, content) with content = snippet, called after a call that left earlier:
\* the category returned and the scores object of this call
classifyDocument(filename, snippet, earlier) ==
  LET text == combinedText(filename, snippet)
      sc == scoreCategories(text, initialScores(earlier))
      maxScore == maxOf(sc)
  IN [category |-> IF maxScore = 0 THEN "other" ELSE findEntry(sc, maxScore),
      scores |-> sc]

\* a call of classifyDocument
Classify(filename, snippet) ==
  /\ Len(clsLog) < MaxClassifyCalls
  /\ LET r == classifyDocument(filename, snippet, scores) IN
     /\ scores' = r.scores
     /\ clsLog' = Append(clsLog, [filename |-> filename, content |-> snippet,
                                  category |-> r.category])
  /\ UNCHANGED besideClassify

InitClassify ==
  /\ CallIdle /\ apiKey = TRUE
  /\ RunIdle
  /\ ClockZero
  /\ ExportIdle
  /\ AggIdle
  /\ GateIdle
  /\ ZipIdle
  /\ TextIdle
  /\ ClassifyIdle
  /\ BackoffIdle
  /\ FileIdle

NextClassify ==
  \E filename \in ClassifierFilenames : \E snippet \in ClassifierContents :
    Classify(filename, snippet)

SpecClassify == InitClassify /\ [][NextClassify]_vars

\* ============================================================= SpecBackoff
\* utils/retry.ts: the delays calculateBackoffDelay gives for the attempts 0, 1,
\* 2, .. of one withRetry call. Math.random() is k / JitterSteps; k =
\* JitterSteps stands for a value so close to 1 that the floating-point sum
\* rounds to 1.25 times the exponential delay. Delays are kept in units of
\* 1 / (4 * JitterSteps) ms, which makes every value an integer.

RECURSIVE pow2(_)
\* Math.pow(2, attempt)
pow2(n) == IF n = 0 THEN 1 ELSE 2 * pow2(n - 1)

\* ms in delay units
Units(ms) == ms * 4 * JitterSteps

\* the cap left out
calculateBackoffDelay_Uncapped(att, base, max, rnd) ==
  LET exponentialDelay == base * pow2(att)
      jitter == exponentialDelay * (2 * rnd - JitterSteps)
  IN Units(exponentialDelay) + jitter

\* calculateBackoffDelay(attempt, baseDelay, maxDelay) when Math.random()
\* returns rnd / JitterSteps:
\*   jitter = exponentialDelay * 0.25 * (rnd / JitterSteps * 2 - 1)
calculateBackoffDelay(att, base, max, rnd) ==
  LET exponentialDelay == base * pow2(att)
      jitter == exponentialDelay * (2 * rnd - JitterSteps)
      delayWithJitter == Units(exponentialDelay) + jitter
  IN Min(delayWithJitter, Units(max))

\* the base and maximum delays tried: the defaults, the values of the tests,
\* and a base of 1 ms
BaseDelays == {1, 1000}
MaxDelays == {5000, 10000, 30000}

\* withRetry, before sleeping after the failed attempt Len(delays)
CalculateDelay(rnd) ==
  /\ Len(delays) < MaxBackoffAttempts
  /\ delays' = Append(delays,
       [rnd |-> rnd,
        delay |-> calculateBackoffDelay(Len(delays), baseDelay, maxDelay, rnd)])
  /\ UNCHANGED <<baseDelay, maxDelay>>
  /\ UNCHANGED besideBackoff

InitBackoff ==
  /\ CallIdle /\ apiKey = TRUE
  /\ RunIdle
  /\ ClockZero
  /\ ExportIdle
  /\ AggIdle
  /\ GateIdle
  /\ ZipIdle
  /\ TextIdle
  /\ ClassifyIdle
  /\ FileIdle
  /\ baseDelay \in BaseDelays
  /\ maxDelay \in MaxDelays
  /\ delays = <<>>

NextBackoff == \E rnd \in 0..JitterSteps : CalculateDelay(rnd)

SpecBackoff == InitBackoff /\ [][NextBackoff]_vars

\* ================================================================ SpecLive
\* One withRetry call around an operation that settles each time it is called,
\* or one run over a small archive, where every step that can be taken is
\* eventually taken: an archive read and a model request settle, a backoff
\* timer fires, the write of the result to the local store settles, and code
\* that is ready to run runs.
InitLive ==
  \/ InitCall /\ opKind = "fn"
  \/ Init /\ archive.entries <= MaxTimedFiles

NextLive ==
  \/ RetryInvoke
  \/ FnSettle
  \/ RetryHandle
  \/ RetrySleepDone
  \/ Unpack
  \/ StartBatch
  \/ \E f \in 1..MaxFiles : FinishFile(f)
  \/ JoinBatch
  \/ BuildResponse
  \/ SummaryFirstReply
  \/ SummarySecondReply
  \/ Persist

SpecLive == InitLive /\ [][NextLive]_vars /\ WF_vars(NextLive)

\* ================================================================ SpecFile
\* One run over a small archive in which processSingleFile is followed stage by
\* stage for every admitted file: truncateFile, classifyDocument, then
\* withRetry around analyzeDocumentWithJSONGuard.  The category the classifier
\* returns goes into the prompt only and is not kept.

\* the rest of the run's variables, which the per-file stages leave alone
runRest == <<archive, hpc, files, batchStart, faults, processedFiles, processingResult,
             docs, docSrc, aggregate, summaryText, narrativeRequests, nreplies,
             persisted, reply>>

\* the admitted files followed: a PDF whose text is cut, a short text file, and
\* a file without an extension, which the validation lets through
PdfInput ==
  [filename |-> <<"report", "pdf">>,
   raw |-> <<Run("a", 299), Run("sp", 1), Run("a", MAX_TEXT_LENGTH + 1)>>]
TxtInput == [filename |-> <<"data", "txt">>, raw |-> <<Run("a", 3)>>]
BareInput == [filename |-> <<"README">>, raw |-> <<Run("a", 3)>>]

\* the first entry is the PDF or the file without an extension, the second the
\* text file, any further one has no extension
PipeInputs(f) ==
  IF f = 1 THEN {PdfInput, BareInput} ELSE IF f = 2 THEN {TxtInput} ELSE {BareInput}

\* the answers of the model followed: a valid finding, prose, an empty content,
\* and two errors
PipeResponses ==
  {Fulfilled(MkJson("a.txt", "financial", <<12>>, <<>>)), Fulfilled(TextContent),
   Fulfilled(EmptyContent),
   Rejected(MkError("Error", <<"rate", "limit", "exceeded">>)),
   Rejected(MkError("Error", <<"401", "Unauthorized">>))}

\* the classifier handed the whole text
classifierSnippet_WholeText(text) == text

\* truncatedContent.text.substring(0, 300)
classifierSnippet(text) == substring(text, 300)

\* processSingleFile returns: its promise settles
FileSettles(f, settlement) ==
  /\ pstage' = [pstage EXCEPT ![f] = "done"]
  /\ fstate' = [fstate EXCEPT ![f] = "settled"]
  /\ fresult' = [fresult EXCEPT ![f] = settlement]

\* withRetry resumes after analyzeDocumentWithJSONGuard has settled for file f:
\* return or throw to processSingleFile, which returns; or sleep
AnalysisSettles(f, settled) ==
  LET step == withRetryStep(pfAttempt[f], finalConfig(PipelineRetryConfig), settled) IN
  IF step = "sleep"
  THEN /\ pstage' = [pstage EXCEPT ![f] = "sleeping"]
       /\ UNCHANGED <<fstate, fresult>>
  ELSE FileSettles(f, processSingleFile(f, TRUE,
         IF step = "return" THEN settled ELSE Rejected(AsError(settled.error))))

\* step 1: await truncateFile(file.buffer, fileType); a throw (unsupported
\* type, or the extractor failing on the buffer) goes to the outer catch
ExtractStage(f) ==
  /\ fstate[f] = "inflight" /\ pstage[f] = "extract"
  /\ stageLog' = [stageLog EXCEPT ![f] = Append(@, "extract")]
  /\ LET fileKind == getFileExtension(pipeFiles[f].filename) IN
     \E readable \in BOOLEAN :
       IF truncateFile(fileKind) = "unsupported" \/ ~readable
       THEN /\ FileSettles(f, processSingleFile(f, FALSE, Pending))
            /\ UNCHANGED truncatedContent
       ELSE /\ truncatedContent' =
                 [truncatedContent EXCEPT ![f] =
                    CASE fileKind = "pdf" -> truncatePDF(pipeFiles[f].raw)
                      [] fileKind = "docx" -> truncateDOCX(pipeFiles[f].raw)
                      [] fileKind = "xlsx" -> truncateXLSX(pipeFiles[f].raw, 1)
                      [] fileKind = "csv" -> truncateCSV(pipeFiles[f].raw)
                      [] fileKind = "txt" -> truncateTXT(pipeFiles[f].raw)]
            /\ pstage' = [pstage EXCEPT ![f] = "classify"]
            /\ UNCHANGED <<fstate, fresult>>
  /\ UNCHANGED <<pipeFiles, classifierInput, pfAttempt, pfRequests>>
  /\ UNCHANGED runRest
  /\ UNCHANGED besideFile

\* step 2: classifyDocument(currentFilename, truncatedContent.text.substring(0, 300))
ClassifyStage(f) ==
  /\ pstage[f] = "classify"
  /\ stageLog' = [stageLog EXCEPT ![f] = Append(@, "classify")]
  /\ classifierInput' =
       [classifierInput EXCEPT ![f] =
          [filename |-> pipeFiles[f].filename,
           snippet |-> classifierSnippet(truncatedContent[f].text)]]
  /\ pstage' = [pstage EXCEPT ![f] = "invoke"]
  /\ UNCHANGED <<pipeFiles, truncatedContent, pfAttempt, pfRequests, fstate, fresult>>
  /\ UNCHANGED runRest
  /\ UNCHANGED besideFile

\* step 3, withRetry's loop body: analyzeDocumentWithJSONGuard is called; it
\* throws without a credential and issues its first request otherwise
AnalyzeInvoke(f) ==
  /\ pstage[f] = "invoke"
  /\ withRetryLoop(pfAttempt[f], finalConfig(PipelineRetryConfig))
  /\ stageLog' = [stageLog EXCEPT ![f] = Append(@, "analyze")]
  /\ IF ~apiKey
     THEN /\ AnalysisSettles(f, Rejected(GuardCatch(MkError("Error", MsgKeyNotSet))))
          /\ UNCHANGED pfRequests
     ELSE /\ pfRequests' = [pfRequests EXCEPT ![f] = @ + 1]
          /\ pstage' = [pstage EXCEPT ![f] = "req1"]
          /\ UNCHANGED <<fstate, fresult>>
  /\ UNCHANGED <<pipeFiles, truncatedContent, classifierInput, pfAttempt>>
  /\ UNCHANGED runRest
  /\ UNCHANGED besideFile

\* the first response arrives: settle, or issue the corrective follow-up
AnalyzeFirstReply(f) ==
  /\ pstage[f] = "req1"
  /\ \E resp \in PipeResponses :
       LET d == GuardAfterFirst(resp) IN
       IF d.pc = "done"
       THEN /\ AnalysisSettles(f, d.out)
            /\ UNCHANGED pfRequests
       ELSE /\ pfRequests' = [pfRequests EXCEPT ![f] = @ + 1]
            /\ pstage' = [pstage EXCEPT ![f] = "req2"]
            /\ UNCHANGED <<fstate, fresult>>
  /\ UNCHANGED <<pipeFiles, stageLog, truncatedContent, classifierInput, pfAttempt>>
  /\ UNCHANGED runRest
  /\ UNCHANGED besideFile

\* the response to the corrective follow-up arrives
AnalyzeSecondReply(f) ==
  /\ pstage[f] = "req2"
  /\ \E resp \in PipeResponses : AnalysisSettles(f, GuardAfterSecond(resp))
  /\ UNCHANGED <<pipeFiles, stageLog, truncatedContent, classifierInput, pfAttempt,
                 pfRequests>>
  /\ UNCHANGED runRest
  /\ UNCHANGED besideFile

\* the backoff sleep of file f ends: attempt++ and back to the loop condition
AnalyzeSleepDone(f) ==
  /\ pstage[f] = "sleeping"
  /\ pfAttempt' = [pfAttempt EXCEPT ![f] = @ + 1]
  /\ pstage' = [pstage EXCEPT ![f] = "invoke"]
  /\ UNCHANGED <<pipeFiles, stageLog, truncatedContent, classifierInput, pfRequests,
                 fstate, fresult>>
  /\ UNCHANGED runRest
  /\ UNCHANGED besideFile

InitFile ==
  /\ CallIdle
  /\ ClockZero
  /\ ExportIdle /\ AggIdle
  /\ GateIdle /\ ZipIdle /\ TextIdle /\ ClassifyIdle /\ BackoffIdle
  /\ apiKey \in BOOLEAN
  /\ archive \in {a \in Archives : a.entries <= MaxPipeFiles}
  /\ hpc = "unpacking"
  /\ files = 0 /\ batchStart = 0 /\ faults = 0
  /\ fstate = [f \in 1..MaxFiles |-> "none"]
  /\ fresult = [f \in 1..MaxFiles |-> Pending]
  /\ processedFiles = <<>>
  /\ processingResult = NoProcessingResult
  /\ docs = <<>> /\ docSrc = <<>>
  /\ aggregate = ZeroAggregate
  /\ summaryText = NoSummary
  /\ narrativeRequests = 0
  /\ nreplies = <<>>
  /\ persisted = <<>>
  /\ reply = NoReply
  /\ pipeFiles \in [1..MaxPipeFiles -> {PdfInput, TxtInput, BareInput}]
  /\ \A f \in 1..MaxPipeFiles :
       pipeFiles[f] \in (IF f <= archive.entries THEN PipeInputs(f) ELSE {TxtInput})
  /\ pstage = [f \in 1..MaxPipeFiles |-> IF f <= archive.entries THEN "extract" ELSE "none"]
  /\ stageLog = [f \in 1..MaxPipeFiles |-> <<>>]
  /\ truncatedContent = [f \in 1..MaxPipeFiles |-> NoValue]
  /\ classifierInput = [f \in 1..MaxPipeFiles |-> NoValue]
  /\ pfAttempt = [f \in 1..MaxPipeFiles |-> 0]
  /\ pfRequests = [f \in 1..MaxPipeFiles |-> 0]

NextFile ==
  \/ Unpack
  \/ StartBatch
  \/ \E f \in 1..MaxPipeFiles : ExtractStage(f)
  \/ \E f \in 1..MaxPipeFiles : ClassifyStage(f)
  \/ \E f \in 1..MaxPipeFiles : AnalyzeInvoke(f)
  \/ \E f \in 1..MaxPipeFiles : AnalyzeFirstReply(f)
  \/ \E f \in 1..MaxPipeFiles : AnalyzeSecondReply(f)
  \/ \E f \in 1..MaxPipeFiles : AnalyzeSleepDone(f)
  \/ JoinBatch
  \/ BuildResponse
  \/ SummaryFirstReply
  \/ SummarySecondReply
  \/ Persist

SpecFile == InitFile /\ [][NextFile]_vars

\* ====================================================== claims, SpecCall
\* a reply that parses as JSON and passes the gateway's schema
ParsesAndValidates(r) ==
  /\ r.kind = "json"
  /\ r.doc # ""
  /\ r.category \in {"financial", "legal", "commercial", "operations", "other"}
  /\ Len(r.facts) \in 1..5
  /\ Len(r.red_flags) \in 0..5
  /\ \A i \in DOMAIN r.facts : r.facts[i] > 0
  /\ \A i \in DOMAIN r.red_flags : r.red_flags[i] > 0

\* the guard invocation in flight has settled and withRetry has not resumed yet
GuardSettled == opKind = "guard" /\ rpc = "awaitFn" /\ gpc = "done"

\* C4: analyzeDocumentWithJSONGuard issues one request when the first non-empty
\* reply parses and validates, two when it does not, never a third; it returns
\* a reply only if that reply validated, and fails when the second reply is
\* invalid too.
C4_GuardRequests ==
  /\ opKind = "guard" => greq <= 2
  /\ GuardSettled =>
       /\ (Len(greplies) >= 1 /\ greplies[1].kind # "empty") =>
             IF ParsesAndValidates(greplies[1])
             THEN greq = 1 /\ opOut = Fulfilled(greplies[1])
             ELSE greq = 2
       /\ opOut.ok =>
             /\ Len(greplies) >= 1
             /\ opOut.value = greplies[Len(greplies)]
             /\ ParsesAndValidates(opOut.value)
       /\ (Len(greplies) = 2 /\ ~ParsesAndValidates(greplies[2])) =>
             ~opOut.ok /\ opOut.error # NoError

\* C4 witness: an invalid first reply, a follow-up, and a valid second reply
C4_Witness ==
  /\ GuardSettled /\ greq = 2 /\ Len(greplies) = 2
  /\ ~ParsesAndValidates(greplies[1]) /\ opOut.ok

\* the DocumentFinding schema of the specification, with the 300-character limit
MAX_ITEM_CHARS == 300

FullDocumentFindingSchema(r) ==
  /\ ParsesAndValidates(r)
  /\ \A i \in DOMAIN r.facts : r.facts[i] <= MAX_ITEM_CHARS
  /\ \A i \in DOMAIN r.red_flags : r.red_flags[i] <= MAX_ITEM_CHARS

\* C5: every per-document result the gateway accepts satisfies the full
\* DocumentFinding schema, including at most 300 characters per fact and per
\* red flag.
C5_AcceptedFindingSatisfiesSchema ==
  (GuardSettled /\ opOut.ok) => FullDocumentFindingSchema(opOut.value)

\* C7: with the credential missing the model operation is attempted exactly
\* once: withRetry does not call it again and does not sleep.
C7_MissingCredentialNotRetried ==
  (opKind = "guard" /\ ~apiKey) => (calls <= 1 /\ sleeps = 0)

\* the maxAttempts in force: the configured one, 5 by default
ClaimMaxAttempts == IF config.maxAttempts = <<>> THEN 5 ELSE config.maxAttempts[1]

\* the predicate in force accepts (returns true for) the error withRetry hands it
PredicateAccepts(e) ==
  CASE config.shouldRetryFn = "yes" -> TRUE
    [] config.shouldRetryFn = "no" -> FALSE
    [] OTHER -> shouldRetry(IF e.name = "NonError"
                            THEN MkError("Error", <<"Unknown", "error">>) ELSE e)

RetryEnded == rpc \in {"returned", "threw"}

\* C8: withRetry with maxAttempts >= 1 never calls the operation more than
\* maxAttempts times (5 by default); when every call fails with an error the
\* predicate accepts, it is called exactly maxAttempts times and the error of
\* the last call is re-raised.
C8_AttemptsCapped ==
  ClaimMaxAttempts >= 1 =>
    /\ calls <= ClaimMaxAttempts
    /\ ( /\ opKind = "fn" /\ RetryEnded /\ Len(opLog) >= 1
         /\ \A i \in DOMAIN opLog : ~opLog[i].ok /\ PredicateAccepts(opLog[i].error) )
       => /\ rpc = "threw"
          /\ calls = ClaimMaxAttempts
          /\ Len(opLog) = ClaimMaxAttempts
          /\ opLog[Len(opLog)].error.name = "Error"
               => lastError = opLog[Len(opLog)].error

\* C8 witness: the default of 5 attempts exhausted, every call having failed
C8_Witness ==
  /\ opKind = "fn" /\ config.maxAttempts = <<>> /\ rpc = "threw"
  /\ calls = 5 /\ Len(opLog) = 5
  /\ \A i \in DOMAIN opLog : ~opLog[i].ok /\ PredicateAccepts(opLog[i].error)

\* the calls of the operation that succeeded
OkCalls == {i \in DOMAIN opLog : opLog[i].ok}

\* C9: when the operation fails on its first N-1 calls with errors the
\* predicate accepts and succeeds on call N <= maxAttempts, it is called
\* exactly N times and withRetry returns the value of call N.
C9_SucceedsOnNthCall ==
  \A N \in 1..ClaimMaxAttempts :
    ( /\ opKind = "fn" /\ RetryEnded
      /\ N \in OkCalls
      /\ \A i \in 1..(N - 1) : ~opLog[i].ok /\ PredicateAccepts(opLog[i].error) )
    => /\ rpc = "returned"
       /\ calls = N
       /\ rresult = opLog[N].value

\* C9 witness: two accepted failures, then a success on the third call
C9_Witness ==
  /\ opKind = "fn" /\ rpc = "returned" /\ calls = 3 /\ Len(opLog) = 3
  /\ ~opLog[1].ok /\ ~opLog[2].ok /\ opLog[3].ok /\ rresult = opLog[3].value

\* C10: when the predicate returns false for the error of the first call, the
\* operation is not called again, no backoff sleep happens, and the caller
\* receives that error.
C10_RejectedErrorNotRetried ==
  ( /\ opKind = "fn" /\ Len(opLog) >= 1
    /\ ~opLog[1].ok /\ ~PredicateAccepts(opLog[1].error) )
  => /\ calls = 1 /\ sleeps = 0 /\ Len(opLog) = 1
     /\ rpc \in {"awaitFn", "threw"}
     /\ (rpc = "threw" /\ opLog[1].error.name = "Error") => lastError = opLog[1].error

\* C10 witness: the default predicate rejects 'invalid api key' with attempts left
C10_Witness ==
  /\ opKind = "fn" /\ config = [maxAttempts |-> <<3>>, shouldRetryFn |-> "unset"]
  /\ rpc = "threw" /\ calls = 1 /\ sleeps = 0
  /\ lastError = MkError("Error", <<"invalid", "api", "key">>)

\* ========================================================== claims, Spec
\* the archive can be unpacked: it is readable, has an eligible entry and no
\* entry that validateExtractedFiles rejects
Unpackable == ~archive.corrupt /\ archive.entries >= 1 /\ ~archive.unsupported

\* processZipFile has returned to the handler
PipelineReturned == hpc \in {"returned", "summary1", "summary2", "persist", "replied"}

\* C1: a failure of any stage for one admitted file never rejects the run and
\* never keeps another admitted file from being processed; processSingleFile
\* never throws, and processedFiles ends with exactly one entry per admitted
\* file, whatever subset of the files fails and in whatever order they settle.
C1_PartialFailure ==
  /\ \A f \in 1..MaxFiles : fstate[f] = "settled" => fresult[f].ok
  /\ (PipelineReturned /\ Unpackable) =>
       /\ processingResult.totalFiles = archive.entries
       /\ Len(processingResult.processedFiles) = archive.entries
       /\ \A f \in 1..archive.entries :
            Cardinality({k \in DOMAIN processingResult.processedFiles :
                          processingResult.processedFiles[k].originalFile = f}) = 1

\* C1 witness: 11 admitted files, one failed in extraction, one in the model
\* analysis, the others analysed, and every file has its entry
C1_Witness ==
  /\ PipelineReturned /\ archive.entries = 11
  /\ Len(processingResult.processedFiles) = 11
  /\ \E k \in DOMAIN processingResult.processedFiles :
        processingResult.processedFiles[k].processingErrors # <<>>
  /\ \E k \in DOMAIN processingResult.processedFiles :
        processingResult.processedFiles[k].llmErrors # <<>>
  /\ \E k \in DOMAIN processingResult.processedFiles :
        processingResult.processedFiles[k].llmAnalysis # NoValue

\* the findings in docs produced from file f, the strings in errors naming f
FindingsOf(f) == {k \in DOMAIN reply.body.docs : docSrc[k] = f}
ErrorsNaming(f) == {k \in DOMAIN reply.body.errors : reply.body.errors[k].file = f}

\* C2: in the AnalysisResult of a run (credential configured) every admitted
\* file is accounted for exactly once, by one finding in docs or by exactly one
\* string in errors naming the file.
C2_EveryFileAccountedFor ==
  (reply.kind = "result" /\ Unpackable /\ apiKey) =>
    \A f \in 1..archive.entries :
      \/ Cardinality(FindingsOf(f)) = 1 /\ Cardinality(ErrorsNaming(f)) = 0
      \/ Cardinality(FindingsOf(f)) = 0 /\ Cardinality(ErrorsNaming(f)) = 1

\* the per-file sub-pipelines in flight
InFlight == {f \in 1..MaxFiles : fstate[f] = "inflight"}

\* C3: at every moment of a run at most 10 per-file sub-pipelines are in flight.
C3_ConcurrencyCeiling == Cardinality(InFlight) <= 10

\* C3 witness: 10 sub-pipelines in flight while an admitted file still waits
C3_Witness ==
  /\ Cardinality(InFlight) = 10
  /\ \E f \in 1..MaxFiles : fstate[f] = "queued"

\* C6: when unpacking fails the run goes directly to Failed: no per-file
\* processing starts, no narrative model call is made, nothing is persisted,
\* and the caller receives an error instead of an AnalysisResult.
C6_UnpackFailureIsFatal ==
  ~Unpackable =>
    /\ \A f \in 1..MaxFiles : fstate[f] = "none"
    /\ narrativeRequests = 0
    /\ persisted = <<>>
    /\ reply.kind # "result"

\* ================================================ claims, SpecCall (cont.)
\* the errors by which the gateway reports invalid credentials or an
\* authorization failure to its caller
PermanentGatewayErrors ==
  {MkError("Error", <<"OpenAI", "API", "key", "is", "invalid", "or", "missing">>),
   MkError("Error", <<"Document", "analysis", "failed:", "401", "Unauthorized">>)}

\* C11: a per-document analysis (credential configured) that fails with an
\* error by which the gateway reports invalid credentials or an authorization
\* failure is not retried: withRetry throws it without a backoff sleep, and
\* when it is the first failure the analysis was attempted exactly once.
C11_PermanentGatewayErrorNotRetried ==
  (opKind = "guard" /\ apiKey /\ lastError \in PermanentGatewayErrors) =>
    /\ rpc = "threw"
    /\ sleeps = 0 => calls = 1


\* ====================================================== claims, SpecTime
\* C12: a run whose elapsed time since unpack start exceeds the overall ceiling
\* of 180 s ends as a fatal failure: the caller receives an error and no
\* AnalysisResult is produced or persisted (archive readable, credential
\* configured).
C12_OverallCeilingIsFatal ==
  (hpc = "replied" /\ Unpackable /\ apiKey /\ elapsed > 180000) =>
    /\ reply.kind = "error"
    /\ persisted = <<>>

\* C13: every model call carries its own timeout: a per-document request is
\* never pending for more than 30 s and a narrative request never for more
\* than 20 s (a request still unanswered then is ended as a failed call).
C13_ModelCallsTimeOut ==
  /\ (rpc = "awaitFn" /\ gpc \in {"req1", "req2"}) => waited <= 30000
  /\ (Unpackable /\ hpc \in {"summary1", "summary2"}) => waited <= 20000

\* ==================================================== claims, Spec (cont.)
\* a narrative answer of 300 to 400 words
InBounds(a) == a.words >= 300 /\ a.words <= 400

\* getSummaryText has returned or thrown
SummaryDone == hpc \in {"persist", "replied"}

\* C14: getSummaryText issues at most two model requests; the corrective
\* follow-up is issued when, and only when, the first answer's word count is
\* outside [300, 400]; an answer within the bound is returned; a corrected
\* answer is returned as the summary even when it is outside the bound, and
\* the AnalysisResult of the run then carries it.
C14_SummaryFollowUp ==
  /\ narrativeRequests <= 2
  /\ Len(nreplies) >= 1 => (narrativeRequests = 2 <=> ~InBounds(nreplies[1]))
  /\ nreplies = <<>> => narrativeRequests <= 1
  /\ (SummaryDone /\ Len(nreplies) = 1 /\ InBounds(nreplies[1])) =>
       summaryText = nreplies[1]
  /\ (SummaryDone /\ Len(nreplies) = 2) => summaryText = nreplies[2]
  /\ (reply.kind = "result" /\ Len(nreplies) = 2) =>
       reply.body.summaryText = nreplies[2]

\* C14 witness: both answers outside the bound, the second one returned to the
\* caller as the summary of the run
C14_Witness ==
  /\ reply.kind = "result" /\ narrativeRequests = 2 /\ Len(nreplies) = 2
  /\ ~InBounds(nreplies[1]) /\ ~InBounds(nreplies[2])
  /\ reply.body.summaryText = nreplies[2]

\* C15: the AnalysisResult of a run is persisted at most once, and only after
\* every per-file sub-pipeline has settled and the narrative call has settled:
\* what is written is the complete result, never one of a run in progress.
C15_PersistedOnceWhenSettled ==
  /\ Len(persisted) <= 1
  /\ persisted # <<>> =>
       /\ \A f \in 1..MaxFiles : fstate[f] \in {"none", "settled"}
       /\ Unpackable => \A f \in 1..archive.entries : fstate[f] = "settled"
       /\ hpc = "replied"
       /\ summaryText # NoSummary
       /\ persisted[1].summaryText = summaryText
       /\ persisted[1].docs = docs

\* C15 witness: a run over two batches, a corrective narrative follow-up, and
\* one AnalysisResult written at the end
C15_Witness ==
  /\ Len(persisted) = 1 /\ archive.entries = 11 /\ narrativeRequests = 2
  /\ \A f \in 1..11 : fstate[f] = "settled"
  /\ Len(persisted[1].docs) >= 9

\* the five categories of an Aggregate
FiveCategories == {"financial", "legal", "operations", "commercial", "other"}

RECURSIVE SumLens(_, _, _)
\* the sum of facts.length (of red_flags.length) over the findings of ds with
\* category c
SumLens(ds, c, field) ==
  IF ds = <<>> THEN 0
  ELSE (IF Head(ds).category = c
        THEN Len(IF field = "facts" THEN Head(ds).facts ELSE Head(ds).red_flags)
        ELSE 0) + SumLens(Tail(ds), c, field)

\* C17: in every AnalysisResult the handler returns, aggregate has, for each of
\* the five categories, facts and red_flags equal to the sums of facts.length
\* and red_flags.length over the findings in docs of that result with that
\* category.
C17_AggregateMatchesDocs ==
  reply.kind = "result" =>
    /\ DOMAIN reply.body.aggregate = FiveCategories
    /\ \A c \in FiveCategories :
         /\ reply.body.aggregate[c].facts = SumLens(reply.body.docs, c, "facts")
         /\ reply.body.aggregate[c].red_flags = SumLens(reply.body.docs, c, "red_flags")

\* C17 witness: a result with two findings of one category, findings of
\* another, red flags counted, and a file that contributed no finding
C17_Witness ==
  /\ reply.kind = "result"
  /\ Len(reply.body.docs) < archive.entries
  /\ reply.body.aggregate["legal"].facts >= 4
  /\ reply.body.aggregate["legal"].red_flags >= 2
  /\ reply.body.aggregate["financial"].facts >= 1

\* C20: an archive entry of an explicitly unsupported type is rejected with a
\* per-file error in errors (it names the entry, which follows the admitted
\* ones), and every other file of the archive is still extracted and analyzed:
\* a result of the run has that error and shows each of them processed.
C20_UnsupportedEntryIsPerFile ==
  (hpc = "replied" /\ reply.kind = "result" /\ ~archive.corrupt
                   /\ archive.unsupported /\ archive.entries >= 1) =>
    /\ \E k \in DOMAIN reply.body.errors :
          reply.body.errors[k].file = archive.entries + 1
    /\ \A f \in 1..archive.entries :
          /\ fstate[f] = "settled"
          /\ \E k \in DOMAIN processingResult.processedFiles :
                processingResult.processedFiles[k].originalFile = f

\* ==================================================== claims, SpecExport
\* C16: of two successive export calls with the same identifier (the second
\* arrives after the first was answered) that both return markdown, the second
\* returns the same bytes as the first and does not invoke the renderer.
C16_ExportIdempotent ==
  \A i, j \in DOMAIN xlog :
    ( /\ i < j /\ xlog[j].seen >= i
      /\ xlog[i].id = xlog[j].id
      /\ xlog[i].status = 200 /\ xlog[j].status = 200 )
    => /\ xlog[j].body = xlog[i].body
       /\ ~xlog[j].rendered

\* ================================================= claims, SpecAggregate
\* the list ds rearranged by the permutation p of its indices
Permuted(ds, p) == [i \in 1..Len(ds) |-> ds[p[i]]]

\* C18: for every list of findings and every category c, aggregateResults
\* returns facts and red_flags of c equal to the sums of facts.length and
\* red_flags.length over the findings with category c; it returns the same for
\* every permutation of the list, and leaves the list as it was.
C18_AggregateIsCommutativeSum ==
  aggOp = "aggregateResults" =>
    /\ \A c \in FiveCategories :
         /\ aggOut[c].facts = SumLens(aggArg, c, "facts")
         /\ aggOut[c].red_flags = SumLens(aggArg, c, "red_flags")
    /\ \A p \in Permutations(1..Len(aggArg)) :
         aggregateResults(Permuted(aggArg, p), NoValue).aggregate = aggOut
    /\ aggDocs = aggArg

\* C18 witness: two findings of one category in a list whose two orders differ
C18_Witness ==
  /\ aggOp = "aggregateResults" /\ Len(aggArg) >= 2
  /\ aggArg[1] # aggArg[2] /\ aggArg[1].category = aggArg[2].category
  /\ aggOut[aggArg[1].category].facts = 3
  /\ aggOut[aggArg[1].category].red_flags = 1

\* C19: every Aggregate produced has exactly the five categories with
\* non-negative integer counts, all zero when there are no documents, and
\* counts only what the computation that produced it was given, whatever
\* earlier computations returned.
C19_AggregateWellFormedAndFresh ==
  aggOp # "none" =>
    /\ DOMAIN aggOut = FiveCategories
    /\ \A c \in FiveCategories :
         /\ aggOut[c].facts \in Nat /\ aggOut[c].red_flags \in Nat
         /\ aggArg = <<>> => (aggOut[c].facts = 0 /\ aggOut[c].red_flags = 0)
         /\ aggOut[c].facts <= SumLens(aggArg, c, "facts")
         /\ aggOut[c].red_flags <= SumLens(aggArg, c, "red_flags")

\* C19 witness: an empty list aggregated to all zeros after an earlier
\* computation had returned counts above zero
C19_Witness ==
  /\ aggOp = "aggregateResults" /\ aggCalls >= 2 /\ aggDirty
  /\ aggArg = <<>>
  /\ \A c \in FiveCategories : aggOut[c].facts = 0 /\ aggOut[c].red_flags = 0

\* ====================================================== claims, SpecGate
\* C21: a file whose content sniffs as a known-unsupported type (an executable)
\* is rejected, also when its filename carries a supported extension: a batch
\* that holds such a file does not pass the gate, and the file reaches no
\* extractor.
C21_SniffedExecutableRejected ==
  \A f \in DOMAIN gateFiles :
    gateFiles[f].sniff = "exe" =>
      /\ gpos # "passed"
      /\ reached[f] = "none"

\* the content type of the file was not detected, or detection raised
Undetectable(f) == gateFiles[f].sniff \in {"none", "raises"}

\* the extension the filename carries, "" without a dot
DeclaredExtension(f) ==
  LET name == gateFiles[f].filename
  IN IF Len(name) >= 2 THEN name[Len(name)] ELSE ""

FiveExtensions == {"pdf", "docx", "xlsx", "csv", "txt"}

\* C22 as stated: a file whose type cannot be detected never makes validation
\* of the batch fail: a batch of such files passes the gate.
C22_UndetectableNeverRejected ==
  (gpos # "validate" /\ Len(gateFiles) > 0
     /\ \A f \in DOMAIN gateFiles : Undetectable(f))
    => gpos = "passed"

\* C22, amended: a file whose type cannot be detected and whose filename
\* carries one of the five supported extensions is never rejected at the gate:
\* a batch of such files passes, a rejection never names such a file, and in a
\* batch that passed the file goes to the extractor of its extension.
C22_UndetectableSupportedExtensionPasses ==
  /\ (gpos # "validate" /\ Len(gateFiles) > 0
        /\ \A f \in DOMAIN gateFiles :
              Undetectable(f) /\ DeclaredExtension(f) \in FiveExtensions)
       => gpos = "passed"
  /\ \A f \in DOMAIN gateFiles :
       (Undetectable(f) /\ DeclaredExtension(f) \in FiveExtensions) =>
         /\ gpos = "rejected" => gateError.message # gateFiles[f].filename
         /\ reached[f] \in {"none", DeclaredExtension(f)}

\* an undetected file named data.txt whose buffer is not readable text went,
\* beside another file, through the gate and on to the TXT extractor
C22_Witness ==
  /\ gpos = "passed"
  /\ Len(gateFiles) = 2
  /\ \E f \in DOMAIN gateFiles :
       /\ Undetectable(f) /\ ~gateFiles[f].textual
       /\ DeclaredExtension(f) = "txt"
       /\ reached[f] = "txt"

\* ================================================================= SpecZip
\* extractZipFiles reading one archive: yauzl delivers the entries one at a
\* time (lazyEntries), the next one after readEntry() is called again.

\* the entries: a file within the size limit that is read to its end, a
\* directory or hidden file, an entry whose declared uncompressed size is above
\* MAX_FILE_SIZE, and an entry whose read stream fails
EntryKinds == {"file", "dirOrHidden", "oversize", "unreadable"}

\* the count check admitting one entry more than the limit
countLimitReached_OffByOne(n) == n > MAX_FILES

\* processedFiles >= PROCESSING_LIMITS.MAX_FILES
countLimitReached(n) == n >= MAX_FILES

\* the file the type gate sees for an admitted entry
AdmittedFile == [filename |-> <<"report", "pdf">>, sniff |-> "pdf", textual |-> FALSE]

\* the 'entry' handler for the next entry, to the readEntry() call that ends it
ZipEntry(kind) ==
  /\ zpos = "reading"
  /\ Len(zipEntries) < MaxZipEntries
  /\ kind # "file" =>
       Cardinality({i \in DOMAIN zipEntries : zipEntries[i] # "file"}) < MaxOdd
  /\ zipEntries' = Append(zipEntries, kind)
  /\ LET e == Len(zipEntries) + 1 IN
     IF kind = "dirOrHidden"
       THEN UNCHANGED <<zipFiles, zipErrors, zipProcessed, zipRead>>
     ELSE IF kind = "oversize"
       THEN /\ zipErrors' = Append(zipErrors, MkNote("exceeds size limit", e))
            /\ UNCHANGED <<zipFiles, zipProcessed, zipRead>>
     ELSE IF countLimitReached(zipProcessed)
       THEN /\ zipErrors' = Append(zipErrors, MkNote("Too many files in ZIP", 0))
            /\ UNCHANGED <<zipFiles, zipProcessed, zipRead>>
     ELSE IF kind = "unreadable"
       THEN /\ zipErrors' = Append(zipErrors, MkNote("Failed to read", e))
            /\ zipRead' = zipRead \cup {e}
            /\ UNCHANGED <<zipFiles, zipProcessed>>
     ELSE /\ zipFiles' = Append(zipFiles, e)
          /\ zipProcessed' = zipProcessed + 1
          /\ zipRead' = zipRead \cup {e}
          /\ UNCHANGED zipErrors
  /\ UNCHANGED zpos
  /\ UNCHANGED besideZip

\* the 'end' handler: validateExtractedFiles(files), then resolve or reject
ZipEnd ==
  /\ zpos = "reading"
  /\ LET v == validateExtractedFiles([i \in 1..Len(zipFiles) |-> AdmittedFile])
     IN zpos' = IF v.error = NoError THEN "resolved" ELSE "rejected"
  /\ UNCHANGED <<zipEntries, zipFiles, zipErrors, zipProcessed, zipRead>>
  /\ UNCHANGED besideZip

InitZip ==
  /\ CallIdle /\ apiKey = TRUE
  /\ RunIdle
  /\ ClockZero
  /\ ExportIdle
  /\ AggIdle
  /\ GateIdle
  /\ TextIdle
  /\ ClassifyIdle
  /\ BackoffIdle
  /\ FileIdle
  /\ zipEntries = <<>> /\ zipFiles = <<>> /\ zipErrors = <<>>
  /\ zipProcessed = 0
  /\ zipRead = {}
  /\ zpos = "reading"

NextZip ==
  \/ \E kind \in EntryKinds : ZipEntry(kind)
  \/ ZipEnd

SpecZip == InitZip /\ [][NextZip]_vars

\* ======================================================= claims, SpecZip
\* the entries read so far that pass the directory/hidden and size rules
PassRules == {i \in DOMAIN zipEntries : zipEntries[i] \in {"file", "unreadable"}}

\* those of them that are read successfully, in archive order
Readable ==
  SelectSeq([i \in 1..Len(zipEntries) |-> i], LAMBDA i : zipEntries[i] = "file")

\* the entry at which the 50th file was admitted, 0 before that
CeilingAt == IF Len(Readable) < 50 THEN 0 ELSE Readable[50]

\* C23: extractZipFiles never admits more than 50 entries; the admitted ones
\* are, in archive order, the first 50 entries that pass the rules and are
\* read successfully; every later entry that passes the rules is not read and
\* has a recorded reason; an entry declared above 25 MiB is never read and has
\* a recorded reason.
C23_AdmitsFirstFifty ==
  /\ Len(zipFiles) <= 50
  /\ zipFiles = SubSeq(Readable, 1, IF Len(Readable) < 50 THEN Len(Readable) ELSE 50)
  /\ CeilingAt > 0 =>
       LET later == {i \in PassRules : i > CeilingAt} IN
       /\ later \cap zipRead = {}
       /\ Cardinality({k \in DOMAIN zipErrors :
                         zipErrors[k].text = "Too many files in ZIP"})
            = Cardinality(later)
  /\ \A i \in DOMAIN zipEntries :
       zipEntries[i] = "oversize" =>
         /\ i \notin zipRead
         /\ \E k \in DOMAIN zipErrors :
               zipErrors[k] = [text |-> "exceeds size limit", file |-> i]

\* fifty files were admitted, a later readable file was turned away with a
\* reason, and an entry above the size limit was recorded
C23_Witness ==
  /\ zpos = "resolved"
  /\ Len(zipFiles) = 50
  /\ Len(Readable) > 50
  /\ \E i \in DOMAIN zipEntries : zipEntries[i] = "oversize"

\* ==================================================== claims, Spec (cont.)
\* C24 as stated: the scheduling is a semaphore with 10 permits: while a file
\* is waiting, 10 sub-pipelines are in flight.
C24_SemaphoreOfTen ==
  (hpc = "awaitBatch" /\ \E f \in 1..files : fstate[f] = "queued")
    => Cardinality(InFlight) = 10

\* C24, amended: the files are drawn in fixed groups of 10 and a group is
\* awaited as a whole: while a group is awaited, every file of the groups
\* before it has completed, the files in flight are files of that group, at
\* most 10, and every file after the group is waiting, also when fewer than 10
\* of the group are still in flight.
C24_GroupsOfTenAwaitedWhole ==
  hpc = "awaitBatch" =>
    /\ Cardinality(InFlight) <= 10
    /\ \A f \in 1..files :
         /\ f <= batchStart => fstate[f] = "settled"
         /\ (f > batchStart /\ f <= batchStart + 10) => fstate[f] \in {"inflight", "settled"}
         /\ f > batchStart + 10 => fstate[f] = "queued"

\* nine of the first group are still in flight, one has completed, and the
\* eleventh file is waiting
C24_Witness ==
  /\ hpc = "awaitBatch"
  /\ Cardinality(InFlight) = 9
  /\ \E f \in 1..files : fstate[f] = "queued"

\* ====================================================== claims, SpecText
\* the normalized text of the input at hand
Normalized == normalizeText(rawText)

\* the offset of run i of a text
RECURSIVE OffsetOf(_, _)
OffsetOf(t, i) == IF i <= 1 THEN 0 ELSE t[i - 1].n + OffsetOf(t, i - 1)

\* the positions of the text that hold the character ch
PositionsOf(t, ch) ==
  UNION {{OffsetOf(t, i) + k : k \in 0..(t[i].n - 1)} : i \in {j \in DOMAIN t : t[j].ch = ch}}

\* the runs of a text are non-empty and maximal
Maximal(t) ==
  \A i \in DOMAIN t : t[i].n >= 1 /\ (i < Len(t) => t[i].ch # t[i + 1].ch)

\* C27: the output of the normalizer has no NUL, no CR-LF sequence, no run of
\* three or more newlines, no run of two or more spaces or tabs, and no leading
\* or trailing whitespace.
C27_NormalizedText ==
  LET out == Normalized IN
  /\ Maximal(out)
  /\ \A i \in DOMAIN out :
       /\ out[i].ch # "nul"
       /\ (out[i].ch = "cr" /\ i < Len(out)) => out[i + 1].ch # "lf"
       /\ out[i].ch = "lf" => out[i].n < 3
       /\ out[i].ch \in {"sp", "tab"} =>
            /\ out[i].n < 2
            /\ i < Len(out) => out[i + 1].ch \notin {"sp", "tab"}
  /\ out # <<>> =>
       /\ out[1].ch \notin {"sp", "tab", "cr", "lf"}
       /\ out[Len(out)].ch \notin {"sp", "tab", "cr", "lf"}

\* a text with three newlines between two words was normalized and returned
\* with two
C27_Witness ==
  /\ tpos = "done"
  /\ rawText = <<Run("a", 1), Run("lf", 3), Run("a", 1)>>
  /\ \E i \in DOMAIN truncation.text : truncation.text[i] = Run("lf", 2)

\* the text ends with the ellipsis
EndsWithEllipsis(t) == t # <<>> /\ t[Len(t)] = [ch |-> "dot", n |-> 3]

\* the text without its last run
ButLast(t) == SubSeq(t, 1, Len(t) - 1)

\* the spaces of the normalized text that lie in the 14,997-character prefix,
\* and those of them in its final 20%
PrefixSpaces == {q \in PositionsOf(Normalized, "sp") : q < 14997}
TailSpaces == {q \in PrefixSpaces : 10 * q > 8 * 14997}

\* the returned text of a file that is not a spreadsheet is what truncateText
\* returned
FromTruncateText == tpos = "done" /\ fileType # "xlsx"

\* C25: the truncation step returns at most 15,000 characters; a normalized
\* text of at most 15,000 characters is returned as it is with truncated =
\* false; a longer one is returned with truncated = true, ending in '...',
\* cut at the last space of its 14,997-character prefix when that space lies
\* in the final 20% of the prefix and at 14,997 characters otherwise.
C25_TruncationStep ==
  FromTruncateText =>
    /\ TextLength(truncation.text) <= 15000
    /\ TextLength(Normalized) <= 15000 =>
         /\ truncation.text = Normalized
         /\ truncation.truncated = FALSE
    /\ TextLength(Normalized) > 15000 =>
         /\ truncation.truncated = TRUE
         /\ EndsWithEllipsis(truncation.text)
         /\ LET kept == ButLast(truncation.text)
                last == IF PrefixSpaces = {} THEN -1
                        ELSE CHOOSE q \in PrefixSpaces : \A o \in PrefixSpaces : o <= q
                cut == IF last \in TailSpaces THEN last ELSE 14997
            IN /\ TextLength(kept) = cut
               /\ kept = Canon(substring(Normalized, cut))

\* a text of 15,002 normalized characters with its last space at position
\* 11,998 was cut at that space
C25_Witness ==
  /\ FromTruncateText
  /\ TextLength(Normalized) = 15002
  /\ TailSpaces = {11998}
  /\ truncation.text = <<Run("a", 11998), Run("dot", 3)>>

\* C26: for every extractor the truncated flag is true if and only if the
\* normalized extracted text exceeded 15,000 characters, that is exactly when
\* the returned text was cut and ends with the ellipsis.
C26_TruncatedFlagIffCut ==
  tpos = "done" =>
    /\ truncation.truncated = (TextLength(Normalized) > 15000)
    /\ truncation.truncated = (EndsWithEllipsis(truncation.text)
                                 /\ truncation.text # Normalized)

\* ================================================== claims, SpecClassify
\* the four scored categories in their declared order
ScoredOrder == <<"financial", "legal", "commercial", "operations">>

\* the keyword score of each scored category for each filename and text: the
\* keywords of the category that occur in the lower-cased "filename content"
ScoreTable ==
  [f \in ClassifierFilenames |-> [t \in ClassifierContents |->
     [c \in {"financial", "legal", "commercial", "operations"} |->
        Cardinality({k \in DOMAIN CATEGORY_KEYWORDS[c] :
                       stringIncludes(lowerCaseString(f \o <<" ">> \o t),
                                      CATEGORY_KEYWORDS[c][k])})]]]

KeywordScore(call, c) == ScoreTable[call.filename][call.content][c]

\* C28: classifyDocument returns the category with the highest keyword score
\* among the four scored ones, the first in declared order among equals; it
\* returns 'other' exactly when the four scores are zero; and calls with the
\* same filename and text return the same category whatever was called before.
C28_ClassifierPicksHighest ==
  /\ \A n \in DOMAIN clsLog :
       LET call == clsLog[n]
           allZero == \A i \in DOMAIN ScoredOrder : KeywordScore(call, ScoredOrder[i]) = 0
       IN /\ (call.category = "other") = allZero
          /\ ~allZero =>
               \E i \in DOMAIN ScoredOrder :
                 /\ call.category = ScoredOrder[i]
                 /\ \A j \in DOMAIN ScoredOrder :
                      /\ KeywordScore(call, ScoredOrder[j]) <= KeywordScore(call, ScoredOrder[i])
                      /\ j < i => KeywordScore(call, ScoredOrder[j])
                                    < KeywordScore(call, ScoredOrder[i])
  /\ \A n \in DOMAIN clsLog : \A m \in DOMAIN clsLog :
       (clsLog[n].filename = clsLog[m].filename /\ clsLog[n].content = clsLog[m].content)
         => clsLog[n].category = clsLog[m].category

\* after a call that scored legal highest, a text with one commercial and one
\* operations keyword was classified commercial
C28_Witness ==
  /\ Len(clsLog) = 2
  /\ clsLog[1].category = "legal"
  /\ KeywordScore(clsLog[2], "commercial") = 1
  /\ KeywordScore(clsLog[2], "operations") = 1
  /\ KeywordScore(clsLog[2], "financial") = 0 /\ KeywordScore(clsLog[2], "legal") = 0
  /\ clsLog[2].category = "commercial"

\* =================================================== claims, SpecBackoff
\* the exponential delay of attempt k (the k-th entry of delays is attempt
\* k - 1), in ms
ExpDelay(k) == baseDelay * pow2(k - 1)

\* the smaller of two numbers
Least(a, b) == IF a <= b THEN a ELSE b

OneOutcome ==
  /\ (reply # NoReply) <=> (hpc = "replied")
  /\ reply # NoReply =>
       \/ /\ reply.kind = "result" /\ reply.status = 200
          /\ reply.body.kind = "response"
          /\ reply.body.summaryText # NoSummary
       \/ /\ reply.kind = "error" /\ reply.status >= 400
          /\ reply.body = NoValue

\* C30: every invocation ends in exactly one caller-visible outcome, a complete
\* AnalysisResult or a terminal error, never both and never neither: the
\* answer is sent exactly when the handler finishes, it is one of the two, it
\* is never replaced by another, and (every archive read and model request
\* settling) a started run always reaches it; nor does a retried operation
\* stay in its retry loop forever.
C30_ExactlyOneOutcomeAlwaysReached ==
  /\ []OneOutcome
  /\ [][reply # NoReply => reply' = reply]_vars
  /\ (hpc = "unpacking") ~> (hpc = "replied")
  /\ (rpc = "loop" /\ attempt = 0) ~> (rpc \in {"returned", "threw"})

\* a run of two files, one of which failed, that asked for the narrative
\* twice and has answered with the result
C30_Witness ==
  /\ hpc = "replied" /\ reply.kind = "result"
  /\ files = 2
  /\ narrativeRequests = 2
  /\ processingResult.processingErrors # <<>>

\* =================================================== claims, Spec continued
\* file.filename of the admitted file f: the first entry of the archive is
\* a.txt, the second b.txt, the others c.txt
EntryFilename(f) == IF f = 1 THEN "a.txt" ELSE IF f = 2 THEN "b.txt" ELSE "c.txt"

\* C31: each finding in docs has doc equal to the filename of the archive entry
\* it was produced from, so docs holds exactly one finding per successfully
\* analysed file and no two findings of a run stand for the same file.
C31_DocIsFilenameOfItsEntry ==
  \A k \in DOMAIN docs :
    /\ docs[k].doc = EntryFilename(docSrc[k])
    /\ \A j \in DOMAIN docs : j # k => docs[j].doc # docs[k].doc

\* ====================================================== claims, SpecFile
\* the model requests of the run so far: those of the files and of the narrative
TotalRequests ==
  LET upTo[f \in 0..MaxPipeFiles] == IF f = 0 THEN 0 ELSE pfRequests[f] + upTo[f - 1]
  IN upTo[MaxPipeFiles] + narrativeRequests

\* how often analyzeDocumentWithJSONGuard was called for file f
GuardedAnalyses(f) == Len(SelectSeq(stageLog[f], LAMBDA st : st = "analyze"))

\* C32: the number of model requests is bounded: for one file at most 5 guarded
\* analyses of at most 2 requests each, so at most 10; at most 2 for the
\* narrative; and at most 10 * N + 2 for a run with N admitted files.
C32_RequestsBounded ==
  /\ \A f \in 1..MaxPipeFiles :
       /\ GuardedAnalyses(f) <= 5
       /\ pfRequests[f] <= 2 * GuardedAnalyses(f)
       /\ pfRequests[f] <= 10
  /\ narrativeRequests <= 2
  /\ TotalRequests <= 10 * files + 2

\* a run that has answered after one file used all 10 requests and the
\* narrative both of its own
C32_Witness ==
  /\ hpc = "replied"
  /\ \E f \in 1..MaxPipeFiles : pfRequests[f] = 10
  /\ narrativeRequests = 2

\* p is the text made of the first k characters of t (all of t when it is shorter)
FirstCharacters(p, t, k) ==
  /\ TextLength(p) = (IF TextLength(t) < k THEN TextLength(t) ELSE k)
  /\ Len(p) <= Len(t)
  /\ \A i \in DOMAIN p :
       /\ p[i].ch = t[i].ch
       /\ IF i < Len(p) THEN p[i].n = t[i].n ELSE p[i].n <= t[i].n

\* the extension of the name of file f is one of the five supported ones
SupportedExtension(f) ==
  Len(pipeFiles[f].filename) > 1
  /\ pipeFiles[f].filename[Len(pipeFiles[f].filename)] \in FiveExtensions

\* C34: within one per-file sub-pipeline the stages run in the order extract,
\* classify, analyze; no model request is issued for a file whose extraction
\* failed or whose extension is not one of the five supported ones; and the
\* classifier receives the filename and the first 300 characters of the
\* already truncated text.
C34_StagesInOrder ==
  \A f \in 1..MaxPipeFiles :
    /\ \A k \in DOMAIN stageLog[f] :
         stageLog[f][k] = (IF k = 1 THEN "extract" ELSE IF k = 2 THEN "classify"
                           ELSE "analyze")
    /\ (pfRequests[f] > 0 \/ GuardedAnalyses(f) > 0) =>
         /\ truncatedContent[f] # NoValue
         /\ SupportedExtension(f)
         /\ classifierInput[f] # NoValue
    /\ classifierInput[f] # NoValue =>
         /\ truncatedContent[f] # NoValue
         /\ classifierInput[f].filename = pipeFiles[f].filename
         /\ FirstCharacters(classifierInput[f].snippet, truncatedContent[f].text, 300)

\* the PDF went through extract, classify and two guarded analyses, its text was
\* cut and the classifier got 300 characters of it, while the extraction of
\* the other file failed and no request was issued for it
C34_Witness ==
  /\ stageLog[1] = <<"extract", "classify", "analyze", "analyze">>
  /\ truncatedContent[1].truncated
  /\ TextLength(classifierInput[1].snippet) = 300
  /\ Len(classifierInput[1].snippet) = 2
  /\ pstage[2] = "done" /\ truncatedContent[2] = NoValue /\ pfRequests[2] = 0

\* ================================================ claims, SpecCall continued
\* the settlement of the call with attempt index k (calls of the operation are
\* logged in order)
CallOutcome(k) == opLog[k + 1]

\* C33 as stated: withRetry sleeps only between two consecutive attempts: in
\* every execution the number of backoff sleeps equals the number of calls of
\* the operation minus one.
C33_SleepsAreCallsMinusOne ==
  RetryEnded => sleeps = calls - 1

\* C33, amended: in every execution that calls the operation at least once the
\* number of backoff sleeps equals the number of calls minus one; the sleep
\* after the call with attempt index k is computed from k; and there is no
\* sleep after a success, after an error the predicate rejects, or after the
\* last allowed attempt.
C33_SleepsBetweenAttempts ==
  /\ (RetryEnded /\ calls >= 1) => sleeps = calls - 1
  /\ Len(sleepArgs) = sleeps
  /\ \A i \in DOMAIN sleepArgs : sleepArgs[i] = i - 1
  /\ opKind = "fn" =>
       \A i \in DOMAIN sleepArgs :
         LET k == sleepArgs[i] IN
         /\ k + 1 \in DOMAIN opLog
         /\ ~CallOutcome(k).ok
         /\ PredicateAccepts(CallOutcome(k).error)
         /\ k < ClaimMaxAttempts - 1
  /\ rpc = "sleeping" => (sleeps = calls /\ sleepArgs[sleeps] = attempt)
  /\ rpc \in {"loop", "awaitFn"} => sleeps = attempt

\* three calls: two failures the predicate accepts, each followed by a sleep
\* computed from its attempt index, then a success and no further sleep
C33_Witness ==
  /\ opKind = "fn" /\ rpc = "returned"
  /\ calls = 3 /\ sleeps = 2 /\ sleepArgs = <<0, 1>>
  /\ opLog[3].ok

\* ================================================ claims, SpecExport continued
\* the export call r has started and has not answered
ExportInFlight(r) == xreq[r].pc \notin {"idle", "done"}

\* C35: when several export requests for the same identifier run concurrently
\* and no rendered artifact exists yet, the renderer is invoked at most once
\* and every request returns the same markdown bytes: of two calls in flight
\* for one identifier at most one has rendered.
C35_ConcurrentExportsRenderOnce ==
  \A r, q \in 1..MaxExports :
    (r # q /\ ExportInFlight(r) /\ ExportInFlight(q) /\ xreq[r].id = xreq[q].id)
      => ~(xreq[r].rendered /\ xreq[q].rendered)

\* =================================================== claims, Spec continued
\* the narrative step has raised: the handler is past getSummaryText and either
\* no request could be made or a request did not bring back a text
NarrativeRaised ==
  /\ hpc \in {"persist", "replied"}
  /\ narrativeRequests = 0 \/ Len(nreplies) < narrativeRequests

\* C36: if the narrative step raises an error for any reason (failed model
\* call, missing credential, empty reply) the run still completes: the handler
\* substitutes the generated fallback summary and returns and persists a
\* complete AnalysisResult; only a failed write of the result ends the run
\* with an error.
C36_NarrativeFailureFallsBack ==
  NarrativeRaised =>
    /\ summaryText.kind = "fallback"
    /\ hpc = "replied" =>
         \/ /\ reply.kind = "result" /\ reply.status = 200
            /\ reply.body.summaryText.kind = "fallback"
            /\ reply.body.docs = docs /\ reply.body.aggregate = aggregate
            /\ reply.body.errors = processingResult.processingErrors
            /\ persisted = <<reply.body>>
         \/ /\ reply.kind = "error" /\ persisted = <<>>

\* the corrective narrative request failed after a first text outside the
\* bounds; the run answered with the findings and the fallback summary
C36_Witness ==
  /\ hpc = "replied" /\ reply.kind = "result"
  /\ narrativeRequests = 2 /\ Len(nreplies) = 1
  /\ reply.body.summaryText.kind = "fallback"
  /\ docs # <<>>
  /\ persisted = <<reply.body>>

\* C37: for every interleaving of per-file completions, processedFiles lists
\* the admitted files in archive order (entry i belongs to admitted file i),
\* and docs is a subsequence of that order.
C37_ArchiveOrderKept ==
  /\ \A i \in DOMAIN processedFiles : processedFiles[i].originalFile = i
  /\ \A i \in DOMAIN processingResult.processedFiles :
       processingResult.processedFiles[i].originalFile = i
  /\ Len(docSrc) = Len(docs)
  /\ \A k \in DOMAIN docSrc :
       /\ docSrc[k] \in DOMAIN processingResult.processedFiles
       /\ k > 1 => docSrc[k - 1] < docSrc[k]

\* three files were processed, the second without a finding: docs holds the
\* findings of the first and the third, in that order
C37_Witness ==
  /\ hpc = "replied"
  /\ Len(processingResult.processedFiles) = 3
  /\ docSrc = <<1, 3>>

====
